---- MODULE Spec2Model ----
(***************************************************************************)
(* A model of the read-only SQLite query engine of this repository:        *)
(* the varint codec (lib.rs), the serial value decoder (serial_value.rs),  *)
(* the database header accessor (db_header.rs), the pager (db_file.rs),    *)
(* the page/cell decoder (btree_page.rs) and the B-tree traversal and      *)
(* query executor (main.rs).                                               *)
(*                                                                         *)
(* Strings that the program compares, orders or case-folds are sequences   *)
(* of byte values (character codes).  64-bit unsigned integers are eight   *)
(* base-256 digits, most significant first, so that shifts drop the bits   *)
(* a u64 drops.                                                            *)
(***************************************************************************)
EXTENDS Integers, Sequences, FiniteSets, TLC

VARIABLES
    file,     \* the database file: header page-size field, pages, schema rows
    src,      \* the byte source handed to a decoder (a Cursor over a slice)
    op,       \* the operation that ran last ("init" before any)
    args,     \* its inputs
    result,   \* its return value
    stdout    \* the lines printed so far

vars == <<file, src, op, args, result, stdout>>

(***************************************************************************)
(* Results: Ok(v), Err(e) (an anyhow error returned to the caller) and     *)
(* Panic(e) (unreachable!(), expect(), an index out of bounds).            *)
(***************************************************************************)
Ok(v) == [st |-> "ok", val |-> v]

Err(e) == [st |-> "err", val |-> e]

Panic(e) == [st |-> "panic", val |-> e]

IsOk(r) == r.st = "ok"

None == [some |-> FALSE, v |-> 0]

Some(x) == [some |-> TRUE, v |-> x]

RECURSIVE Pow(_, _)
Pow(b, e) == IF e = 0 THEN 1 ELSE b * Pow(b, e - 1)

NoFile == [page_size |-> <<0, 0>>, npages |-> 0, pages |-> <<>>]

NoArgs == [none |-> TRUE]

NoResult == [st |-> "none", val |-> 0]

(***************************************************************************)
(* lib.rs: ReadVarint::read_varint                                         *)
(***************************************************************************)
U64Zero == <<0, 0, 0, 0, 0, 0, 0, 0>>

\* result <<= 7 on a u64: the seven bits shifted out at the top are dropped
U64Shl7(x) ==
    [i \in 1..8 |-> ((x[i] * 128) % 256) + (IF i < 8 THEN x[i + 1] \div 2 ELSE 0)]

\* result <<= 8 on a u64
U64Shl8(x) == [i \in 1..8 |-> IF i < 8 THEN x[i + 1] ELSE 0]

RECURSIVE U64Carry(_, _, _)
U64Carry(x, i, c) ==
    IF i = 0 \/ c = 0 THEN x
    ELSE U64Carry([x EXCEPT ![i] = (x[i] + c) % 256], i - 1, (x[i] + c) \div 256)

\* result += a, for a < 256 (wrapping; after a shift the low bits are zero,
\* so no carry leaves the last digit and the sum never overflows)
U64Add(x, a) == U64Carry(x, 8, a)

\* the number of iterations of `for _ in 0..=8`
VarintLoopIters == 9

\* st, the value, pos (the cursor position: bytes consumed) and reads (the
\* number of read_u8 calls made, the failing one included)
VarintRet(st, v, pos, reads) == [st |-> st, val |-> v, pos |-> pos, reads |-> reads]

RECURSIVE VarintLoop(_, _, _, _)
VarintLoop(data, pos, iter, acc) ==
    IF iter = VarintLoopIters
    THEN \* after the loop: "we got to the 9th byte - use all 8 bits of it"
         IF pos + 1 > Len(data) THEN VarintRet("err", acc, pos, pos + 1)
         ELSE VarintRet("ok", U64Add(U64Shl8(acc), data[pos + 1]), pos + 1, pos + 1)
    ELSE IF pos + 1 > Len(data) THEN VarintRet("err", acc, pos, pos + 1)
    ELSE LET a == data[pos + 1]
             r == U64Add(U64Shl7(acc), a % 128)
         IN  IF a \div 128 = 0
             THEN VarintRet("ok", r, pos + 1, pos + 1)
             ELSE VarintLoop(data, pos + 1, iter + 1, r)

read_varint(data) == VarintLoop(data, 0, 0, U64Zero)

(***************************************************************************)
(* db_header.rs: DBHeader::page_size, DBHeader::SIZE                       *)
(***************************************************************************)
DBHeaderSize == 100

\* field_decoder!{u16; page_size}: u16::from_be_bytes(self.page_size)
page_size(hdr) == hdr[1] * 256 + hdr[2]

(***************************************************************************)
(* serial_value.rs: SerialValue::read                                      *)
(***************************************************************************)
Take(s, n) == SubSeq(s, 1, n)

RECURSIVE SignedBE(_)
\* a big-endian two's complement integer of Len(bytes) <= 4 bytes
SignedBE(bytes) ==
    IF Len(bytes) = 1
    THEN (IF bytes[1] >= 128 THEN bytes[1] - 256 ELSE bytes[1])
    ELSE SignedBE(Take(bytes, Len(bytes) - 1)) * 256 + bytes[Len(bytes)]

\* a wider integer (i48, i64) as 16-bit limbs, the first one signed
WideBE(bytes) ==
    [k \in 1..(Len(bytes) \div 2) |->
        IF k = 1 THEN SignedBE(SubSeq(bytes, 1, 2))
        ELSE bytes[2 * k - 1] * 256 + bytes[2 * k]]

IntBE(bytes) == IF Len(bytes) <= 4 THEN SignedBE(bytes) ELSE WideBE(bytes)

\* std::str::from_utf8: well-formed UTF-8 (Unicode table 3-7)
Cont(b) == b >= 128 /\ b <= 191

RECURSIVE Utf8Valid(_)
Utf8Valid(b) ==
    IF Len(b) = 0 THEN TRUE
    ELSE IF b[1] < 128 THEN Utf8Valid(Tail(b))
    ELSE IF b[1] >= 194 /\ b[1] <= 223
         THEN Len(b) >= 2 /\ Cont(b[2]) /\ Utf8Valid(SubSeq(b, 3, Len(b)))
    ELSE IF b[1] >= 224 /\ b[1] <= 239
         THEN /\ Len(b) >= 3
              /\ Cont(b[2]) /\ Cont(b[3])
              /\ (b[1] = 224 => b[2] >= 160)
              /\ (b[1] = 237 => b[2] <= 159)
              /\ Utf8Valid(SubSeq(b, 4, Len(b)))
    ELSE IF b[1] >= 240 /\ b[1] <= 244
         THEN /\ Len(b) >= 4
              /\ Cont(b[2]) /\ Cont(b[3]) /\ Cont(b[4])
              /\ (b[1] = 240 => b[2] >= 144)
              /\ (b[1] = 244 => b[2] <= 143)
              /\ Utf8Valid(SubSeq(b, 5, Len(b)))
    ELSE FALSE

\* the SerialValue variants; i is the integer content, s the bytes or
\* characters of a text, blob or float
SV(t, i, s) == [t |-> t, i |-> i, s |-> s]

Null == SV("Null", 0, <<>>)

Zero == SV("Zero", 0, <<>>)

One == SV("One", 0, <<>>)

Int8(i) == SV("Int8", i, <<>>)

Text(s) == SV("Text", 0, s)

SerialRet(st, v, n) == [st |-> st, val |-> v, consumed |-> n]

\* a decoder that reads the integer little-endian (the mutant of ReadFixed)
ReadFixedLittleEndian(t, n, data) ==
    IF Len(data) < n THEN SerialRet("err", "failed to fill whole buffer", 0)
    ELSE SerialRet("ok", SV(t, IntBE([k \in 1..n |-> data[n + 1 - k]]), <<>>), n)

\* reader.read_iN::<BigEndian>() / read_exact of n bytes from the source
ReadFixed(t, n, data) ==
    IF Len(data) < n THEN SerialRet("err", "failed to fill whole buffer", 0)
    ELSE SerialRet("ok", SV(t, IntBE(Take(data, n)), <<>>), n)

ReadBytes(t, n, data) ==
    IF Len(data) < n THEN SerialRet("err", "failed to fill whole buffer", 0)
    ELSE IF t = "Text" /\ ~Utf8Valid(Take(data, n))
         THEN SerialRet("err", "text bytes into String", n)
    ELSE SerialRet("ok", SV(t, 0, Take(data, n)), n)

SerialValue_read(serial_type, data) ==
    CASE serial_type = 0 -> SerialRet("ok", Null, 0)
      [] serial_type = 1 -> ReadFixed("Int8", 1, data)
      [] serial_type = 2 -> ReadFixed("Int16", 2, data)
      [] serial_type = 3 -> ReadFixed("Int24", 3, data)
      [] serial_type = 4 -> ReadFixed("Int32", 4, data)
      [] serial_type = 5 -> ReadFixed("Int48", 6, data)
      [] serial_type = 6 -> ReadFixed("Int64", 8, data)
      [] serial_type = 7 -> ReadBytes("Float64", 8, data)
      [] serial_type = 8 -> SerialRet("ok", Zero, 0)
      [] serial_type = 9 -> SerialRet("ok", One, 0)
      [] serial_type \in {10, 11} ->
            SerialRet("err", "unexpected reserved serial value", 0)
      [] serial_type >= 12 /\ serial_type % 2 = 0 ->
            ReadBytes("Blob", (serial_type - 12) \div 2, data)
      [] serial_type >= 12 /\ serial_type % 2 = 1 ->
            ReadBytes("Text", (serial_type - 13) \div 2, data)

(***************************************************************************)
(* serial_value.rs: as_rowid and Display.  Strings are sequences of bytes. *)
(***************************************************************************)
IntKinds == {"Int8", "Int16", "Int24", "Int32", "Int48", "Int64"}

Int64(i) == SV("Int64", i, <<>>)

\* `*i as u64` (the integers of the database fixtures are not negative)
as_rowid(v) == IF v.t \in IntKinds THEN Some(v.i) ELSE None

RECURSIVE Decimal(_)
\* the decimal digits of n >= 0 as characters
Decimal(n) == IF n < 10 THEN <<48 + n>> ELSE Append(Decimal(n \div 10), 48 + (n % 10))

\* "(null)"
S_null == <<40, 110, 117, 108, 108, 41>>

\* impl Display for SerialValue (float and blob values do not occur in the
\* database fixtures)
to_string(v) ==
    CASE v.t = "Null" -> S_null
      [] v.t = "Zero" -> <<48>>
      [] v.t = "One" -> <<49>>
      [] v.t \in IntKinds -> (IF v.i < 0 THEN <<45>> \o Decimal(0 - v.i) ELSE Decimal(v.i))
      [] v.t = "Text" -> v.s

RECURSIVE StrCmp(_, _)
\* str::cmp: bytewise lexicographic order; -1 Less, 0 Equal, 1 Greater
StrCmp(a, b) ==
    IF Len(a) = 0 THEN (IF Len(b) = 0 THEN 0 ELSE -1)
    ELSE IF Len(b) = 0 THEN 1
    ELSE IF a[1] < b[1] THEN -1
    ELSE IF a[1] > b[1] THEN 1
    ELSE StrCmp(Tail(a), Tail(b))

(***************************************************************************)
(* btree_page.rs: a decoded page is its kind, its cells in cell-pointer    *)
(* order and its right-most pointer.  A leaf cell is [row_id, payload]     *)
(* (row_id read on table leaves only), an interior table cell              *)
(* [left_child_page, row_id], an interior index cell                       *)
(* [left_child_page, payload].                                             *)
(***************************************************************************)
Page(type, cells, right) == [page_type |-> type, cells |-> cells, right_most_pointer |-> right]

is_interior(type) == type \in {"InteriorIndex", "InteriorTable"}

\* BTreePage::read_cell: the record, its NULL first column replaced by the
\* row-id on a leaf table page; values[0] of an empty record is out of bounds
read_cell(page, cell) ==
    IF Len(cell.payload) = 0 THEN Panic("index out of bounds")
    ELSE IF cell.payload[1] = Null /\ page.page_type = "LeafTable"
         THEN Ok([cell.payload EXCEPT ![1] = Int64(cell.row_id)])
    ELSE Ok(cell.payload)

RECURSIVE ReadCellsFrom(_, _, _)
ReadCellsFrom(page, i, acc) ==
    IF i > Len(page.cells) THEN Ok(acc)
    ELSE LET c == read_cell(page, page.cells[i])
         IN  IF IsOk(c) THEN ReadCellsFrom(page, i + 1, Append(acc, c.val)) ELSE c

\* BTreePage::read_cells
read_cells(page) == ReadCellsFrom(page, 1, <<>>)

\* BTreePage::read_interior_cell
read_interior_cell(page, cell) ==
    CASE page.page_type = "InteriorTable" ->
            Ok([kind |-> "Table", left_child_page |-> cell.left_child_page,
                row_id |-> cell.row_id, columns |-> <<>>])
      [] page.page_type = "InteriorIndex" ->
            IF Len(cell.payload) = 0
            THEN Err("interior index cell should have at least two values")
            ELSE LET rowid == as_rowid(cell.payload[Len(cell.payload)])
                 IN  IF ~rowid.some
                     THEN Err("last interior index cell value must be a rowid")
                     ELSE Ok([kind |-> "Index",
                              left_child_page |-> cell.left_child_page,
                              row_id |-> rowid.v,
                              columns |-> Take(cell.payload, Len(cell.payload) - 1)])
      [] OTHER -> Err("cannot read interior cell from leaf page")

RECURSIVE ReadInteriorCellsFrom(_, _, _)
ReadInteriorCellsFrom(page, i, acc) ==
    IF i > Len(page.cells) THEN Ok(acc)
    ELSE LET c == read_interior_cell(page, page.cells[i])
         IN  IF IsOk(c) THEN ReadInteriorCellsFrom(page, i + 1, Append(acc, c.val)) ELSE c

\* BTreePage::read_interior_cells
read_interior_cells(page) == ReadInteriorCellsFrom(page, 1, <<>>)

(***************************************************************************)
(* db_file.rs: the pager.  The file holds npages pages of the size its     *)
(* header field encodes (1 encodes 65536).                                 *)
(***************************************************************************)
RealPageSize(f) == IF page_size(f.page_size) = 1 THEN 65536 ELSE page_size(f.page_size)

FileLen(f) == f.npages * RealPageSize(f)

\* seek_to_page: (page - 1) * page_size()
seek_to_page(f, page) == (page - 1) * page_size(f.page_size)

\* DBFile::load_page_at: a buffer of page_size() bytes read at the offset and
\* decoded by BTreePage::new(&buf, None).  Without the header flag the
\* decoder reads the page header of page 1 at offset 0, where the file holds
\* the magic string; a buffer that is not a whole page holds no page header.
load_page_at(f, page) ==
    IF seek_to_page(f, page) + page_size(f.page_size) > FileLen(f)
    THEN Err("reading page into buffer")
    ELSE IF page = 1 \/ page_size(f.page_size) # RealPageSize(f)
         THEN Err("invalid page type")
    ELSE Ok(f.pages[page])

\* DBFile::new: the header, then page 1 decoded by BTreePage::new(&page,
\* Some(header)), which skips DBHeader::SIZE bytes and reads an 8-byte page
\* header; `expect` panics when the buffer is too short for it
DBFile_new(f) ==
    IF page_size(f.page_size) > FileLen(f) THEN Err("failed to fill whole buffer")
    ELSE IF page_size(f.page_size) < DBHeaderSize + 8
         THEN Panic("should construct BTree page")
    ELSE Ok([header |-> f.page_size, first_page |-> f.pages[1]])

(***************************************************************************)
(* btree_page.rs and db_file.rs on the bytes of a page: BTreePage::new     *)
(* reads the page header through a cursor, which starts at offset 0 or,    *)
(* when it is given the database header, at DBHeader::SIZE.  The view of   *)
(* a page is its kind, cell count, right-most pointer and cell pointers.   *)
(***************************************************************************)
\* cursor.read_u16::<BigEndian>() at offset at (counted from 0)
ReadU16(data, at) == data[at + 1] * 256 + data[at + 2]

\* cursor.read_u32::<BigEndian>() at offset at
ReadU32(data, at) == ReadU16(data, at) * 65536 + ReadU16(data, at + 2)

\* PageType::from
PageType_from(page_type_byte) ==
    CASE page_type_byte = 2 -> Ok("InteriorIndex")
      [] page_type_byte = 5 -> Ok("InteriorTable")
      [] page_type_byte = 10 -> Ok("LeafIndex")
      [] page_type_byte = 13 -> Ok("LeafTable")
      [] OTHER -> Err("invalid page type")

\* the length of the page header: 12 bytes with a right-most pointer, else 8
PageHeaderLen(page_type) == IF is_interior(page_type) THEN 12 ELSE 8

\* BTreePage::new after the page type: the rest of the page header and the
\* num_cells cell pointers; a read past the end of the buffer is an error
PageViewAt(data, at, page_type) ==
    IF at + PageHeaderLen(page_type) > Len(data)
       \/ at + PageHeaderLen(page_type) + 2 * ReadU16(data, at + 3) > Len(data)
    THEN Err("failed to fill whole buffer")
    ELSE Ok([page_type |-> page_type,
             num_cells |-> ReadU16(data, at + 3),
             right_most_pointer |-> IF is_interior(page_type)
                                    THEN Some(ReadU32(data, at + 8)) ELSE None,
             cell_pointers |-> [k \in 1..ReadU16(data, at + 3) |->
                                   ReadU16(data, at + PageHeaderLen(page_type) + 2 * (k - 1))]])

\* PageType::from(cursor.read_u8()?)? and the rest of the page
PageTypedAt(data, at, page_type) ==
    IF IsOk(page_type) THEN PageViewAt(data, at, page_type.val) ELSE page_type

\* BTreePage::new(data, db_header): the cursor is moved to DBHeader::SIZE
\* only if db_header.is_some()
BTreePage_new(data, db_header) ==
    LET at == IF db_header.some THEN DBHeaderSize ELSE 0
    IN  IF at + 1 > Len(data) THEN Err("failed to fill whole buffer")
        ELSE PageTypedAt(data, at, PageType_from(data[at + 1]))

\* .expect("should construct BTree page")
Expect(r, msg) == IF IsOk(r) THEN r ELSE Panic(msg)

\* DBFile::new on a file that begins with the page-size bytes `data`: the
\* first 100 bytes are the header, then the same bytes are decoded as page 1
\* with the header
DBFile_new_first_page(data) ==
    Expect(BTreePage_new(data, Some(Take(data, DBHeaderSize))), "should construct BTree page")

\* DBFile::load_page_at(1) on the same file: the offset is (1 - 1) *
\* page_size, the buffer is the same bytes, decoded without the header
load_page_at_first(data) == BTreePage_new(data, None)

(***************************************************************************)
(* main.rs: the B-tree traversal engine.  Every `?` returns the first      *)
(* error (or panic) of a callee unchanged.                                 *)
(***************************************************************************)
RECURSIVE ScanVisit(_, _)
RECURSIVE ScanCells(_, _, _, _, _)
RECURSIVE LookupVisit(_, _, _)
RECURSIVE LookupCells(_, _, _, _, _, _, _)
RECURSIVE SearchIndexVisit(_, _, _)
RECURSIVE SearchCells(_, _, _, _, _, _, _)

\* a result of a traversal with the calls of load_page_at it made, in the
\* order of the calls
Traced(res, loads) == [res |-> res, loads |-> loads]

\* the traversal of a page that was loaded by the calls `loads`
After(loads, t) == Traced(t.res, loads \o t.loads)

\* load_page_at(ptr)? followed by the recursive scan of that page
ScanChild(f, ptr) ==
    LET page == load_page_at(f, ptr)
    IN  IF IsOk(page) THEN After(<<ptr>>, ScanVisit(f, page.val))
        ELSE Traced(page, <<ptr>>)

\* result.extend(select_without_index(db_file, page)?) and the next cell
ScanNext(f, cells, i, acc, loads, sub) ==
    IF IsOk(sub.res) THEN ScanCells(f, cells, i + 1, acc \o sub.res.val, loads \o sub.loads)
    ELSE Traced(sub.res, loads \o sub.loads)

\* select_without_index: `for interior_cell in cells`, from cell i on
ScanCells(f, cells, i, acc, loads) ==
    IF i > Len(cells) THEN Traced(Ok(acc), loads)
    ELSE IF cells[i].kind # "Table" THEN Traced(Err("invalid cell type"), loads)
    ELSE ScanNext(f, cells, i, acc, loads, ScanChild(f, cells[i].left_child_page))

\* a scan that forgets the right-most child (the mutant of
\* select_without_index)
ScanWithoutRightMost(f, page) ==
    CASE page.page_type = "LeafTable" -> read_cells(page)
      [] page.page_type = "InteriorTable" ->
            LET cells == read_interior_cells(page)
            IN  IF IsOk(cells) THEN ScanCells(f, cells.val, 1, <<>>, <<>>).res ELSE cells
      [] OTHER -> Err("unhandled page type")

\* result.extend(select_without_index(db_file, page)?) for the right-most
\* child, and the return
ScanJoin(left, right) ==
    Traced(IF IsOk(right.res) THEN Ok(left.res.val \o right.res.val) ELSE right.res,
           left.loads \o right.loads)

\* if let Some(right_ptr) = page.right_most_pointer
ScanRightMost(f, page, left) ==
    IF ~IsOk(left.res) \/ ~page.right_most_pointer.some THEN left
    ELSE ScanJoin(left, ScanChild(f, page.right_most_pointer.v))

\* select_without_index with the pages it loads
ScanVisit(f, page) ==
    CASE page.page_type = "LeafTable" -> Traced(read_cells(page), <<>>)
      [] page.page_type = "InteriorTable" ->
            LET cells == read_interior_cells(page)
            IN  IF IsOk(cells)
                THEN ScanRightMost(f, page, ScanCells(f, cells.val, 1, <<>>, <<>>))
                ELSE Traced(cells, <<>>)
      [] OTHER -> Traced(Err("unhandled page type"), <<>>)

select_without_index(f, page) == ScanVisit(f, page).res

RECURSIVE BinarySearch(_, _, _, _)
BinarySearch(ids, k, lo, hi) ==
    IF lo >= hi THEN lo
    ELSE LET mid == lo + ((hi - lo) \div 2)
         IN  IF ids[mid + 1] <= k
             THEN BinarySearch(ids, k, mid + 1, hi)
             ELSE BinarySearch(ids, k, lo, mid)

\* the number of ids below k (the mutant of partition_point)
partition_point_below(ids, k) == Cardinality({i \in 1..Len(ids) : ids[i] < k})

\* right_ids.partition_point(|&id| id <= k): a binary search, which on a
\* sorted slice is the number of ids <= k
partition_point(ids, k) == BinarySearch(ids, k, 0, Len(ids))

\* load_page_at(ptr)? followed by the recursive lookup of ids in that page
LookupChild(f, ptr, ids) ==
    LET page == load_page_at(f, ptr)
    IN  IF IsOk(page) THEN After(<<[page |-> ptr, ids |-> ids]>>, LookupVisit(f, page.val, ids))
        ELSE Traced(page, <<[page |-> ptr, ids |-> ids]>>)

\* results.extend(select_with_index(db_file, right_page, right_ids)?) and
\* the return
LookupRight(rows, loads, right) ==
    Traced(IF IsOk(right.res) THEN Ok(rows \o right.res.val) ELSE right.res,
           loads \o right.loads)

\* select_with_index, InteriorTable arm: the body of the loop for cell ind
\* once the left child was looked up or passed over, rest being right_ids
\* after the split
LookupStep(f, page, cells, ind, rest, acc, loads, left) ==
    IF ~IsOk(left.res) THEN Traced(left.res, loads \o left.loads)
    ELSE IF rest = <<>> THEN Traced(Ok(acc \o left.res.val), loads \o left.loads)
    ELSE IF page.right_most_pointer.some /\ ind = Len(cells)
         THEN LookupRight(acc \o left.res.val, loads \o left.loads,
                          LookupChild(f, page.right_most_pointer.v, rest))
    ELSE LookupCells(f, page, cells, ind + 1, rest, acc \o left.res.val, loads \o left.loads)

\* left_ids = &right_ids[..pp]; right_ids = &right_ids[pp..]; the left child
\* is loaded if !left_ids.is_empty()
LookupSplit(f, page, cells, ind, right_ids, acc, loads, pp) ==
    LookupStep(f, page, cells, ind, SubSeq(right_ids, pp + 1, Len(right_ids)), acc, loads,
               IF Take(right_ids, pp) = <<>> THEN Traced(Ok(<<>>), <<>>)
               ELSE LookupChild(f, cells[ind].left_child_page, Take(right_ids, pp)))

\* select_with_index, InteriorTable arm: the loop over the cells from cell
\* ind on (ind counts from 1), right_ids being the ids not yet routed
LookupCells(f, page, cells, ind, right_ids, acc, loads) ==
    IF ind > Len(cells) THEN Traced(Ok(acc), loads)
    ELSE IF cells[ind].kind # "Table"
         THEN Traced(Err("invalid cell type - expected interior table cell"), loads)
    ELSE LookupSplit(f, page, cells, ind, right_ids, acc, loads,
                     partition_point(right_ids, cells[ind].row_id))

RECURSIVE SkipWhile(_, _, _)
\* cells.by_ref().skip_while(|c| c[0].as_rowid() < id).next(): the position
\* of the cell returned, 0 when the iterator ends, -1 when as_rowid() is None
\* (unreachable!())
SkipWhile(cells, pos, id) ==
    IF pos > Len(cells) THEN 0
    ELSE IF ~as_rowid(cells[pos][1]).some THEN -1
    ELSE IF as_rowid(cells[pos][1]).v < id THEN SkipWhile(cells, pos + 1, id)
    ELSE pos

RECURSIVE LeafLookup(_, _, _, _, _)
\* select_with_index, LeafTable arm: `for &id in row_ids`, from id i on, the
\* cell iterator standing before cell pos
LeafLookup(cells, pos, row_ids, i, acc) ==
    IF i > Len(row_ids) THEN Ok(acc)
    ELSE LET j == SkipWhile(cells, pos, row_ids[i])
         IN  IF j = -1 THEN Panic("internal error: entered unreachable code")
             ELSE IF j = 0 THEN Err("must have a value")
             ELSE LeafLookup(cells, j + 1, row_ids, i + 1, Append(acc, cells[j]))

\* select_with_index with the pages it loads and the ids it looks up in each
LookupVisit(f, page, row_ids) ==
    CASE page.page_type = "InteriorTable" ->
            LET cells == read_interior_cells(page)
            IN  IF IsOk(cells)
                THEN LookupCells(f, page, cells.val, 1, row_ids, <<>>, <<>>)
                ELSE Traced(cells, <<>>)
      [] page.page_type = "LeafTable" ->
            LET cells == read_cells(page)
            IN  Traced(IF IsOk(cells) THEN LeafLookup(cells.val, 1, row_ids, 1, <<>>)
                       ELSE cells,
                       <<>>)
      [] OTHER -> Traced(Panic("internal error: entered unreachable code"), <<>>)

select_with_index(f, page, row_ids) == LookupVisit(f, page, row_ids).res

\* load_page_at(ptr)? followed by the recursive search of that page
SearchChild(f, ptr, query) ==
    LET page == load_page_at(f, ptr)
    IN  IF IsOk(page) THEN After(<<ptr>>, SearchIndexVisit(f, page.val, query))
        ELSE Traced(page, <<ptr>>)

\* cell_cmp == Ordering::Equal only
LeftOnlyWhenEqual(cell_cmp) == cell_cmp = 0

\* cell_cmp == Ordering::Greater || cell_cmp == Ordering::Equal
LeftMightMatch(cell_cmp) == cell_cmp >= 0

\* if cell_cmp == Ordering::Equal { results.push(cell.rowid) }
OwnRowId(cell, cell_cmp) == IF cell_cmp = 0 THEN <<cell.row_id>> ELSE <<>>

\* results.extend(search_index(db_file, right_page, query)?) and the return
SearchRight(ids, loads, right) ==
    Traced(IF IsOk(right.res) THEN Ok(ids \o right.res.val) ELSE right.res,
           loads \o right.loads)

\* search_index, InteriorIndex arm: the body of the loop for cell ind once
\* the left child was searched or passed over
SearchStep(f, page, cells, ind, query, acc, loads, cell_cmp, left) ==
    IF ~IsOk(left.res) THEN Traced(left.res, loads \o left.loads)
    ELSE IF cell_cmp = 1 THEN Traced(Ok(acc \o left.res.val), loads \o left.loads)
    ELSE IF page.right_most_pointer.some /\ ind = Len(cells)
         THEN SearchRight(acc \o left.res.val \o OwnRowId(cells[ind], cell_cmp),
                          loads \o left.loads,
                          SearchChild(f, page.right_most_pointer.v, query))
    ELSE SearchCells(f, page, cells, ind + 1, query,
                     acc \o left.res.val \o OwnRowId(cells[ind], cell_cmp),
                     loads \o left.loads)

\* the comparison of the cell with the query and the visit of its left child
SearchLeft(f, page, cells, ind, query, acc, loads, cell_cmp) ==
    SearchStep(f, page, cells, ind, query, acc, loads, cell_cmp,
               IF LeftMightMatch(cell_cmp)
               THEN SearchChild(f, cells[ind].left_child_page, query)
               ELSE Traced(Ok(<<>>), <<>>))

\* search_index, InteriorIndex arm: the loop over the cells from cell ind on
SearchCells(f, page, cells, ind, query, acc, loads) ==
    IF ind > Len(cells) THEN Traced(Ok(acc), loads)
    ELSE IF cells[ind].kind # "Index" THEN Traced(Err("invalid cell type"), loads)
    ELSE IF Len(cells[ind].columns) = 0 THEN Traced(Panic("index out of bounds"), loads)
    ELSE SearchLeft(f, page, cells, ind, query, acc, loads,
                    StrCmp(to_string(cells[ind].columns[1]), query))

RECURSIVE LeafMatches(_, _, _, _)
\* search_index, LeafIndex arm: filter on c[0], map to c[1].as_rowid() or 0
LeafMatches(cells, i, query, acc) ==
    IF i > Len(cells) THEN Ok(acc)
    ELSE IF to_string(cells[i][1]) # query THEN LeafMatches(cells, i + 1, query, acc)
    ELSE IF Len(cells[i]) < 2 THEN Panic("index out of bounds")
    ELSE LeafMatches(cells, i + 1, query,
            Append(acc, IF as_rowid(cells[i][2]).some THEN as_rowid(cells[i][2]).v ELSE 0))

\* search_index with the pages it loads
SearchIndexVisit(f, page, query) ==
    CASE page.page_type = "InteriorIndex" ->
            LET cells == read_interior_cells(page)
            IN  IF IsOk(cells)
                THEN SearchCells(f, page, cells.val, 1, query, <<>>, <<>>)
                ELSE Traced(cells, <<>>)
      [] page.page_type = "LeafIndex" ->
            LET cells == read_cells(page)
            IN  Traced(IF IsOk(cells) THEN LeafMatches(cells.val, 1, query, <<>>) ELSE cells,
                       <<>>)
      [] OTHER -> Traced(Panic("internal error: entered unreachable code"), <<>>)

search_index(f, page, query) == SearchIndexVisit(f, page, query).res

(***************************************************************************)
(* sql.rs: the PEG grammar, rule by rule.  A rule applied to the text s at *)
(* position pos (counted from 1) yields [ok, pos, val]: whether it         *)
(* matched, the position after the match and its value.  Choice is         *)
(* ordered and repetition greedy, as in a PEG.  The elements of a rule are *)
(* applied one after the other to the result of the elements before them,  *)
(* whose val lists the values captured so far.                             *)
(***************************************************************************)
PegOk(pos, val) == [ok |-> TRUE, pos |-> pos, val |-> val]

PegFail == [ok |-> FALSE, pos |-> 0, val |-> <<>>]

\* the start of a rule at pos: nothing captured yet
Start(pos) == PegOk(pos, <<>>)

\* e1 / e2: ordered choice
OrElse(a, b) == IF a.ok THEN a ELSE b

\* the element that matched as r captures its value
Capture(prev, r) == IF r.ok THEN PegOk(r.pos, Append(prev.val, r.val)) ELSE PegFail

IsLetter(c) == (c >= 97 /\ c <= 122) \/ (c >= 65 /\ c <= 90)

IsIdentChar(c) == IsLetter(c) \/ c = 95 \/ (c >= 48 /\ c <= 57)

\* u8::to_ascii_lowercase
AsciiLower(c) == IF c >= 65 /\ c <= 90 THEN c + 32 ELSE c

\* a comparison that tells the letter cases apart (the mutant of
\* eq_ignore_ascii_case)
eq_case_sensitive(a, b) == a = b

\* str::eq_ignore_ascii_case
eq_ignore_ascii_case(a, b) ==
    /\ Len(a) = Len(b)
    /\ \A k \in 1..Len(a) : AsciiLower(a[k]) = AsciiLower(b[k])

RECURSIVE SkipWhileIn(_, _, _)
\* the position after the longest run of characters of `set` from pos on
SkipWhileIn(s, pos, set) ==
    IF pos <= Len(s) /\ s[pos] \in set THEN SkipWhileIn(s, pos + 1, set) ELSE pos

\* rule _ = [' ' | '\t' | '\n']*
Ws(s, pos) == SkipWhileIn(s, pos, {32, 9, 10})

\* _ as an element of a rule
W(s, prev) == IF prev.ok THEN PegOk(Ws(s, prev.pos), prev.val) ELSE prev

\* rule i(literal): literal.len() characters, equal to it whatever the case
RuleI(s, pos, literal) ==
    IF pos + Len(literal) - 1 <= Len(s)
          /\ eq_ignore_ascii_case(SubSeq(s, pos, pos + Len(literal) - 1), literal)
    THEN PegOk(pos + Len(literal), literal)
    ELSE PegFail

\* i(literal) as an element of a rule (its value is not captured)
ThenI(s, prev, literal) ==
    IF prev.ok /\ RuleI(s, prev.pos, literal).ok
    THEN PegOk(prev.pos + Len(literal), prev.val)
    ELSE PegFail

\* a literal character as an element of a rule
ThenChar(s, prev, c) ==
    IF prev.ok /\ prev.pos <= Len(s) /\ s[prev.pos] = c
    THEN PegOk(prev.pos + 1, prev.val)
    ELSE PegFail

RECURSIVE SkipIdentChars(_, _, _)
\* [ 'a'..='z' | 'A'..='Z' | '_' | '0'..='9' (| ' ')]*
SkipIdentChars(s, pos, spaces) ==
    IF pos <= Len(s) /\ (IsIdentChar(s[pos]) \/ (spaces /\ s[pos] = 32))
    THEN SkipIdentChars(s, pos + 1, spaces)
    ELSE pos

\* rule ident, from the characters matched (p1 to p2 - 1) on: "\""*
IdentChars(s, p1, p2) == PegOk(SkipWhileIn(s, p2, {34}), SubSeq(s, p1, p2 - 1))

\* rule ident, after the leading "\""*: alpha() [letters, digits, '_']*
IdentAt(s, p1) ==
    IF p1 <= Len(s) /\ IsLetter(s[p1])
    THEN IdentChars(s, p1, SkipIdentChars(s, p1, FALSE))
    ELSE PegFail

\* rule ident = "\""* chars:$(alpha() [letters, digits, '_']*) "\""*
RuleIdent(s, pos) == IdentAt(s, SkipWhileIn(s, pos, {34}))

\* rule quoted_ident, from the characters matched (pos + 1 to p2 - 1) on
QuotedChars(s, pos, p2) ==
    IF p2 <= Len(s) /\ s[p2] = 34 THEN PegOk(p2 + 1, SubSeq(s, pos + 1, p2 - 1)) ELSE PegFail

\* rule quoted_ident = "\"" chars:$(alpha() [letters, digits, '_', ' ']*) "\""
RuleQuotedIdent(s, pos) ==
    IF pos + 1 <= Len(s) /\ s[pos] = 34 /\ IsLetter(s[pos + 1])
    THEN QuotedChars(s, pos, SkipIdentChars(s, pos + 1, TRUE))
    ELSE PegFail

\* name:(ident()) as an element of a rule
ThenIdent(s, prev) == IF prev.ok THEN Capture(prev, RuleIdent(s, prev.pos)) ELSE PegFail

\* "COUNT(*)"
S_COUNT == <<67, 79, 85, 78, 84, 40, 42, 41>>

\* "count(*)"
S_count == <<99, 111, 117, 110, 116, 40, 42, 41>>

S_SELECT == <<83, 69, 76, 69, 67, 84>>

S_FROM == <<70, 82, 79, 77>>

S_WHERE == <<87, 72, 69, 82, 69>>

S_CREATE == <<67, 82, 69, 65, 84, 69>>

S_TABLE == <<84, 65, 66, 76, 69>>

S_INDEX == <<73, 78, 68, 69, 88>>

S_ON == <<79, 78>>

\* rule select = s:(i("COUNT(*)") / ident())
RuleSelect(s, pos) == OrElse(RuleI(s, pos, S_COUNT), RuleIdent(s, pos))

RECURSIVE MoreIdents(_, _)
\* (_ ident())*, after one more _ ident() was tried with result r
MoreAfter(s, pos, r) == IF r.ok THEN MoreIdents(s, r.pos) ELSE pos

\* (_ ident())*
MoreIdents(s, pos) == MoreAfter(s, pos, RuleIdent(s, Ws(s, pos)))

\* n:(ident() / quoted_ident()) as an element of rule column
ThenName(s, prev) ==
    IF prev.ok
    THEN Capture(prev, OrElse(RuleIdent(s, prev.pos), RuleQuotedIdent(s, prev.pos)))
    ELSE PegFail

\* rule column, after n _ ident(): (_ ident())* { n }
ColumnEnd(s, r) == IF r.ok THEN PegOk(MoreIdents(s, r.pos), r.val[1]) ELSE PegFail

\* rule column = n:(ident() / quoted_ident()) _ ident() (_ ident())* { n }
RuleColumn(s, pos) ==
    LET n == ThenName(s, Start(pos))
        type == ThenIdent(s, W(s, n))
    IN  ColumnEnd(s, type)

\* the element rule of a list: column, select or ident
RuleElem(rule, s, pos) ==
    CASE rule = "column" -> RuleColumn(s, pos)
      [] rule = "select" -> RuleSelect(s, pos)
      [] rule = "ident" -> RuleIdent(s, pos)

\* the element rule as an element of a rule
ThenElem(rule, s, prev) ==
    IF prev.ok THEN Capture(prev, RuleElem(rule, s, prev.pos)) ELSE PegFail

RECURSIVE SepBy(_, _, _, _, _)
\* e ++ sep, after one more `sep e` was tried with result e
SepByNext(rule, lead, s, pos, acc, e) ==
    IF e.ok THEN SepBy(rule, lead, s, e.pos, Append(acc, e.val[1])) ELSE PegOk(pos, acc)

\* e ++ sep, after a first e: (sep e)*, where sep is `lead "," _` (lead
\* being _ or nothing) and e is the rule named by `rule`
SepBy(rule, lead, s, pos, acc) ==
    LET comma == ThenChar(s, Start(IF lead THEN Ws(s, pos) ELSE pos), 44)
        e == ThenElem(rule, s, W(s, comma))
    IN  SepByNext(rule, lead, s, pos, acc, e)

\* e ++ sep, after the first e was tried with result e
SepByFirst(rule, lead, s, e) ==
    IF e.ok THEN SepBy(rule, lead, s, e.pos, <<e.val>>) ELSE PegFail

\* e ++ sep: one or more e separated by sep
SepBy1(rule, lead, s, pos) == SepByFirst(rule, lead, s, RuleElem(rule, s, pos))

\* fields:(e ++ sep) as an element of a rule
ThenList(rule, lead, s, prev) ==
    IF prev.ok THEN Capture(prev, SepBy1(rule, lead, s, prev.pos)) ELSE PegFail

Stmt(kind, select, from, where, name, table_name, columns) ==
    [kind |-> kind, select |-> select, from |-> from, where_clause |-> where,
     name |-> name, table_name |-> table_name, columns |-> columns]

\* value:$([^'\'']*) as an element of rule where_clause, end being the
\* position of the first "'" (or of the end of the text)
ThenValueTo(s, prev, end) == PegOk(end, Append(prev.val, SubSeq(s, prev.pos, end - 1)))

ThenValue(s, prev) ==
    IF prev.ok THEN ThenValueTo(s, prev, SkipWhileIn(s, prev.pos, (0..255) \ {39})) ELSE PegFail

\* { WhereClause { column, value } }
WhereClause(r) ==
    IF r.ok THEN PegOk(r.pos, [column |-> r.val[1], value |-> r.val[2]]) ELSE PegFail

\* rule where_clause = i("WHERE") _ column:(ident()) _ "=" _ "'" value:$([^'\'']*) "'"
RuleWhere(s, pos) ==
    LET kw == ThenI(s, Start(pos), S_WHERE)
        column == ThenIdent(s, W(s, kw))
        eq == ThenChar(s, W(s, column), 61)
        open == ThenChar(s, W(s, eq), 39)
        close == ThenChar(s, ThenValue(s, open), 39)
    IN  WhereClause(close)

\* w:(where_clause())? as an element of rule select_statement
OptionalWhere(prev, w) ==
    IF w.ok THEN PegOk(w.pos, Append(prev.val, Some(w.val)))
    ELSE PegOk(prev.pos, Append(prev.val, None))

ThenOptionalWhere(s, prev) ==
    IF prev.ok THEN OptionalWhere(prev, RuleWhere(s, prev.pos)) ELSE PegFail

\* { Statement::Select(SelectStatement { select: fields, from, where_clause: w }) }
SelectStatement(r) ==
    IF r.ok
    THEN PegOk(r.pos, Stmt("Select", r.val[1], r.val[2], r.val[3], <<>>, <<>>, <<>>))
    ELSE PegFail

\* rule select_statement = i("SELECT") _ fields:(select() ++ ("," _)) _
\*     i("FROM") _ from:ident() _ w:(where_clause())?
RuleSelectStatement(s, pos) ==
    LET kw == ThenI(s, Start(pos), S_SELECT)
        fields == ThenList("select", FALSE, s, W(s, kw))
        kf == ThenI(s, W(s, fields), S_FROM)
        from == ThenIdent(s, W(s, kf))
        w == ThenOptionalWhere(s, W(s, from))
    IN  SelectStatement(w)

\* { Statement::CreateTable(CreateTableStatement { name, columns }) }
CreateTableStatement(r) ==
    IF r.ok
    THEN PegOk(r.pos, Stmt("CreateTable", <<>>, <<>>, None, r.val[1], <<>>, r.val[2]))
    ELSE PegFail

\* rule create_table_statement = i("CREATE") _ i("TABLE") _ name:(ident()) _
\*     "(" _ c:(column() ++ (_ "," _)) _ ")"
RuleCreateTable(s, pos) ==
    LET k1 == ThenI(s, Start(pos), S_CREATE)
        k2 == ThenI(s, W(s, k1), S_TABLE)
        name == ThenIdent(s, W(s, k2))
        open == ThenChar(s, W(s, name), 40)
        c == ThenList("column", TRUE, s, W(s, open))
        close == ThenChar(s, W(s, c), 41)
    IN  CreateTableStatement(close)

\* { Statement::CreateIndex(CreateIndexStatement { name, table_name, columns }) }
CreateIndexStatement(r) ==
    IF r.ok
    THEN PegOk(r.pos, Stmt("CreateIndex", <<>>, <<>>, None, r.val[1], r.val[2], r.val[3]))
    ELSE PegFail

\* rule create_index_statement = i("CREATE") _ i("INDEX") _ name:(ident()) _
\*     i("ON") _ table_name:(ident()) _ "(" _ c:(ident() ++ (_ "," _)) _ ")"
RuleCreateIndex(s, pos) ==
    LET k1 == ThenI(s, Start(pos), S_CREATE)
        k2 == ThenI(s, W(s, k1), S_INDEX)
        name == ThenIdent(s, W(s, k2))
        k3 == ThenI(s, W(s, name), S_ON)
        table_name == ThenIdent(s, W(s, k3))
        open == ThenChar(s, W(s, table_name), 40)
        c == ThenList("ident", TRUE, s, W(s, open))
        close == ThenChar(s, W(s, c), 41)
    IN  CreateIndexStatement(close)

\* the statement matched must be followed by _ and the end of the input
WholeInput(s, st) ==
    IF st.ok /\ Ws(s, st.pos) = Len(s) + 1 THEN Ok(st.val) ELSE Err("parse error")

\* s:(select_statement() / create_table_statement() / create_index_statement())
StatementAt(s, p) ==
    OrElse(RuleSelectStatement(s, p), OrElse(RuleCreateTable(s, p), RuleCreateIndex(s, p)))

\* rule sql_statement = _ s:(select_statement() / create_table_statement() /
\*     create_index_statement()) _
sql_statement(s) == WholeInput(s, StatementAt(s, Ws(s, 1)))

(***************************************************************************)
(* schema_object.rs, db_file.rs: the schema catalog.                       *)
(***************************************************************************)
S_table == <<116, 97, 98, 108, 101>>

S_index == <<105, 110, 100, 101, 120>>

S_view == <<118, 105, 101, 119>>

S_trigger == <<116, 114, 105, 103, 103, 101, 114>>

\* SQLITE_TABLE_PREFIX = "sqlite_"
SQLITE_TABLE_PREFIX == <<115, 113, 108, 105, 116, 101, 95>>

starts_with(s, prefix) == Len(s) >= Len(prefix) /\ Take(s, Len(prefix)) = prefix

\* ObjectType::from
ObjectType_from(type_str) ==
    CASE type_str = S_table -> Ok("Table")
      [] type_str = S_index -> Ok("Index")
      [] type_str = S_view -> Ok("View")
      [] type_str = S_trigger -> Ok("Trigger")
      [] OTHER -> Err("unknown object type")

\* SchemaObject::from, on the decoded five-column record
SchemaObject_from(cell) ==
    LET Typed(object_type) ==
            IF ~IsOk(object_type) THEN object_type
            ELSE IF cell[2].t # "Text" THEN Err("unexpected serial value for name")
            ELSE IF cell[3].t # "Text" THEN Err("unexpected serial value for table_name")
            ELSE IF cell[4].t \notin {"Null", "Int8"}
                 THEN Err("unexpected serial value for root_page")
            ELSE IF cell[5].t # "Text" THEN Err("unexpected serial value for sql")
            ELSE Ok([object_type |-> object_type.val,
                     name |-> cell[2].s,
                     table_name |-> cell[3].s,
                     root_page |-> IF cell[4].t = "Null" THEN None ELSE Some(cell[4].i),
                     sql |-> cell[5].s])
    IN  IF Len(cell) # 5 THEN Panic("should have exactly 5 columns for schema table")
        ELSE IF cell[1].t # "Text" THEN Err("unexpected serial value for object_type")
        ELSE Typed(ObjectType_from(cell[1].s))

RECURSIVE SchemasFrom(_, _, _)
\* load_schemas: the cells from cell i on, o being SchemaObject::from of cell i
SchemasNext(cells, i, acc, o) ==
    IF IsOk(o) THEN SchemasFrom(cells, i + 1, Append(acc, o.val)) ELSE o

SchemasFrom(cells, i, acc) ==
    IF i > Len(cells) THEN Ok(acc)
    ELSE SchemasNext(cells, i, acc, SchemaObject_from(cells[i]))

\* BTreePage::load_schemas
load_schemas(page) ==
    LET Converted(cells) == IF IsOk(cells) THEN SchemasFrom(cells.val, 1, <<>>) ELSE cells
    IN  Converted(read_cells(page))

\* DBFile::schema_objects
schema_objects(db) == load_schemas(db.first_page)

\* DBFile::table_objects
table_objects(db) ==
    LET is_user_table(obj) ==
            obj.object_type = "Table" /\ ~starts_with(obj.table_name, SQLITE_TABLE_PREFIX)
        Filtered(all) == IF IsOk(all) THEN Ok(SelectSeq(all.val, is_user_table)) ELSE all
    IN  Filtered(schema_objects(db))

\* DBFile::index_objects
index_objects(db) ==
    LET is_index(obj) == obj.object_type = "Index"
        Filtered(all) == IF IsOk(all) THEN Ok(SelectSeq(all.val, is_index)) ELSE all
    IN  Filtered(schema_objects(db))

\* DBFile::schema_for_table: the first user table of that name
schema_for_table(db, table_name) ==
    LET named(obj) == obj.table_name = table_name
        Found(tables) ==
            IF ~IsOk(tables) THEN tables
            ELSE IF SelectSeq(tables.val, named) = <<>> THEN Err("table not found")
            ELSE Ok(SelectSeq(tables.val, named)[1])
    IN  Found(table_objects(db))

RECURSIVE FindIndex(_, _, _)
\* get_index_page: the closure of `find` on index i, statement being the
\* parse of its SQL; `expect` panics on an index whose SQL does not parse
FindNext(objs, i, column_name, statement) ==
    IF ~IsOk(statement) THEN Panic("parsing index SQL statement")
    ELSE IF statement.val.kind = "CreateIndex"
            /\ \E k \in 1..Len(statement.val.columns) :
                   statement.val.columns[k] = column_name
         THEN Ok(objs[i].root_page)
    ELSE FindIndex(objs, i + 1, column_name)

\* get_index_page: `find` over the indexes of the table, from index i on
FindIndex(objs, i, column_name) ==
    IF i > Len(objs) THEN Ok(None)
    ELSE FindNext(objs, i, column_name, sql_statement(objs[i].sql))

\* DBFile::get_index_page
get_index_page(db, table_name, column_name) ==
    LET of_table(obj) == obj.table_name = table_name
        Found(indexes) ==
            IF IsOk(indexes)
            THEN FindIndex(SelectSeq(indexes.val, of_table), 1, column_name)
            ELSE indexes
    IN  Found(index_objects(db))

\* SchemaObject::column_map: the column names of the table's CREATE TABLE
\* statement, each mapped to its position (counted from 0)
column_map(schema) ==
    LET Columns(statement) ==
            IF IsOk(statement) /\ statement.val.kind = "CreateTable"
            THEN Ok(statement.val.columns)
            ELSE Err("retrieving column order")
    IN  Columns(sql_statement(schema.sql))

\* column_map.get(name): the position of the column, None when absent
ColumnGet(columns, name) ==
    IF \E k \in 1..Len(columns) : columns[k] = name
    THEN Some((CHOOSE k \in 1..Len(columns) : columns[k] = name) - 1)
    ELSE None

(***************************************************************************)
(* main.rs: the query executor.  An execution ends with [st, val, out]:    *)
(* how it ended, the error if any, and the lines it printed before.        *)
(***************************************************************************)
Exit(st, val, out) == [st |-> st, val |-> val, out |-> out]

\* select_rows, Some(pos) arm: search_index(db_file, page, &where_clause.value)?
IdsSearched(row_ids) == IF IsOk(row_ids) THEN Ok(Some(row_ids.val)) ELSE row_ids

\* select_rows, Some(pos) arm: db_file.load_page_at(pos)?
IdsLoaded(f, page, value) ==
    IF IsOk(page) THEN IdsSearched(search_index(f, page.val, value)) ELSE page

\* select_rows: `match index_page`
IdsLocated(f, index_page, value) ==
    IF ~IsOk(index_page) THEN index_page
    ELSE IF index_page.val.some THEN IdsLoaded(f, load_page_at(f, index_page.val.v), value)
    ELSE Ok(None)

\* select_rows: `match index_row_ids`
RowsSelected(f, root_page, index_row_ids) ==
    IF ~IsOk(index_row_ids) THEN index_row_ids
    ELSE IF index_row_ids.val.some
         THEN select_with_index(f, root_page, index_row_ids.val.v)
    ELSE select_without_index(f, root_page)

\* select_rows: index_row_ids, the row-ids found by way of an index of the
\* WHERE column (None without a WHERE clause or without such an index), then
\* the lookup of those row-ids or the full scan
select_rows(f, db, root_page, select_statement) ==
    RowsSelected(f, root_page,
                 IF select_statement.where_clause.some
                 THEN IdsLocated(f,
                                 get_index_page(db, select_statement.from,
                                                select_statement.where_clause.v.column),
                                 select_statement.where_clause.v.value)
                 ELSE Ok(None))

RECURSIVE Join(_, _)
\* Itertools::join
Join(strs, sep) ==
    IF Len(strs) = 0 THEN <<>>
    ELSE IF Len(strs) = 1 THEN strs[1]
    ELSE strs[1] \o sep \o Join(Tail(strs), sep)

\* a print_row that prints every column of the row, whatever the indices
\* (the mutant of print_row)
print_every_column(row, indices) ==
    Ok(Join([k \in 1..Len(row) |-> to_string(row[k])], <<124>>))

\* print_row: the line printed, or the panic of row[*ind] out of bounds
print_row(row, indices) ==
    IF \E k \in 1..Len(indices) : indices[k] >= Len(row)
    THEN Panic("index out of bounds")
    ELSE Ok(Join([k \in 1..Len(indices) |-> to_string(row[indices[k] + 1])], <<124>>))

RECURSIVE PrintRows(_, _, _, _, _, _)
\* select_and_print: the row i, line being what print_row makes of it
PrintNext(rows, i, where_col, where_val, column_indices, out, line) ==
    IF IsOk(line)
    THEN PrintRows(rows, i + 1, where_col, where_val, column_indices, Append(out, line.val))
    ELSE Exit(line.st, line.val, out)

\* select_and_print: `for row in rows`, from row i on; where_col is None
\* without a WHERE clause
PrintRows(rows, i, where_col, where_val, column_indices, out) ==
    IF i > Len(rows) THEN Exit("ok", "", out)
    ELSE IF where_col.some /\ where_col.v >= Len(rows[i])
         THEN Exit("panic", "index out of bounds", out)
    ELSE IF where_col.some /\ to_string(rows[i][where_col.v + 1]) # where_val
         THEN PrintRows(rows, i + 1, where_col, where_val, column_indices, out)
    ELSE PrintNext(rows, i, where_col, where_val, column_indices, out,
                   print_row(rows[i], column_indices))

\* select_and_print, from `let rows = select_rows(..)?` on
PrintSelected(select_statement, columns, rows) ==
    LET select == select_statement.select
        where_clause == select_statement.where_clause
        where_col == ColumnGet(columns, where_clause.v.column)
    IN  IF ~IsOk(rows) THEN Exit(rows.st, rows.val, <<>>)
        ELSE IF where_clause.some /\ ~where_col.some
             THEN Exit("err", "finding index of where column", <<>>)
        ELSE PrintRows(rows.val, 1,
                       IF where_clause.some THEN where_col ELSE None,
                       IF where_clause.some THEN where_clause.v.value ELSE <<>>,
                       [k \in 1..Len(select) |-> ColumnGet(columns, select[k]).v],
                       <<>>)

\* select_and_print, from `let column_indices` on
PrintMapped(f, db, root_page, select_statement, columns) ==
    IF ~IsOk(columns) THEN Exit(columns.st, columns.val, <<>>)
    ELSE IF \E k \in 1..Len(select_statement.select) :
               ~ColumnGet(columns.val, select_statement.select[k]).some
         THEN Exit("panic", "key not found in column map", <<>>)
    ELSE PrintSelected(select_statement, columns.val,
                       select_rows(f, db, root_page, select_statement))

\* select_and_print
select_and_print(f, db, schema, root_page, select_statement) ==
    PrintMapped(f, db, root_page, select_statement, column_map(schema))

\* main, COUNT(*) branch: println!("{}", select_rows(..)?.len())
MainCounted(rows) ==
    IF IsOk(rows) THEN Exit("ok", "", <<Decimal(Len(rows.val))>>)
    ELSE Exit(rows.st, rows.val, <<>>)

\* main, from the root page on: the COUNT(*) branch or select_and_print
MainLoaded(f, s, db, schema, root_page) ==
    IF ~IsOk(root_page) THEN Exit(root_page.st, root_page.val, <<>>)
    ELSE IF Len(s.select) = 1 /\ eq_ignore_ascii_case(s.select[1], S_count)
         THEN MainCounted(select_rows(f, db, root_page.val, s))
    ELSE select_and_print(f, db, schema, root_page.val, s)

\* main, from the table schema on: load the root page of the table
MainResolved(f, s, db, schema) ==
    IF ~IsOk(schema) THEN Exit(schema.st, schema.val, <<>>)
    ELSE IF ~schema.val.root_page.some
         THEN Exit("err", "getting root page from table schema", <<>>)
    ELSE MainLoaded(f, s, db, schema.val, load_page_at(f, schema.val.root_page.v))

\* main, from the opened file on: resolve the table
MainOpened(f, s, db) ==
    IF ~IsOk(db) THEN Exit(db.st, db.val, <<>>)
    ELSE MainResolved(f, s, db.val, schema_for_table(db.val, s.from))

\* main, from the parsed statement on: open the file
MainParsed(f, statement) ==
    IF ~IsOk(statement) THEN Exit("err", "parsing SQL statement", <<>>)
    ELSE IF statement.val.kind # "Select"
         THEN Exit("err", "create statements not supported", <<>>)
    ELSE MainOpened(f, statement.val, DBFile_new(f))

\* main, the SQL command: parse, open, resolve the table, load its root
\* page, then the COUNT(*) branch or select_and_print
main_sql(f, command) == MainParsed(f, sql_statement(command))

\* main, the .tables command: the table_name of every schema object of type
\* Table whose table_name does not start with "sqlite_", joined by " "
main_tables(f) ==
    LET is_user_table(obj) ==
            obj.object_type = "Table" /\ ~starts_with(obj.table_name, SQLITE_TABLE_PREFIX)
        Names(objs) == [k \in 1..Len(objs) |-> objs[k].table_name]
        Loaded(objs) ==
            IF IsOk(objs)
            THEN Exit("ok", "", <<Join(Names(SelectSeq(objs.val, is_user_table)), <<32>>)>>)
            ELSE Exit(objs.st, objs.val, <<>>)
        Opened(db) ==
            IF IsOk(db) THEN Loaded(load_schemas(db.val.first_page))
            ELSE Exit(db.st, db.val, <<>>)
    IN  Opened(DBFile_new(f))

(***************************************************************************)
(* Database files.  A well-formed file is built from the rows of one table *)
(* t(a, b): page 1 holds the schema rows, the table B-tree starts at page  *)
(* 2 and the index B-tree, if there is an index, follows it.  Integers are *)
(* stored as the record format stores them (0 and 1 as the literal serial  *)
(* types 8 and 9); keys are ordered as SQLite orders them (NULL, then      *)
(* numbers, then text bytewise; ties by row-id).                           *)
(***************************************************************************)
StoreInt(n) == IF n = 0 THEN Zero ELSE IF n = 1 THEN One ELSE Int8(n)

Min(a, b) == IF a <= b THEN a ELSE b

\* the j-th of k contiguous parts of seq, of sizes as even as can be
Part(seq, k, j) == SubSeq(seq, (((j - 1) * Len(seq)) \div k) + 1, (j * Len(seq)) \div k)

RECURSIVE BuildTable(_, _, _, _)
RECURSIVE BuildIndex(_, _, _, _)

\* the subtrees of the parts, one after the other from page `at` on:
\* [pages, roots, last]
BuildKids(kind, parts, cap, fan, at) ==
    LET K[j \in 0..Len(parts)] ==
            IF j = 0 THEN [pages |-> <<>>, roots |-> <<>>, last |-> at - 1]
            ELSE LET sub == IF kind = "table"
                            THEN BuildTable(parts[j], cap, fan, K[j - 1].last + 1)
                            ELSE BuildIndex(parts[j], cap, fan, K[j - 1].last + 1)
                 IN  [pages |-> K[j - 1].pages @@ sub.pages,
                      roots |-> Append(K[j - 1].roots, K[j - 1].last + 1),
                      last |-> sub.last]
    IN  K[Len(parts)]

\* a table B-tree over the cells (ascending row-ids) with its root at page
\* `at`: leaves of at most cap cells, interior pages of at most fan children,
\* each separator the largest row-id of its left child
BuildTable(cells, cap, fan, at) ==
    IF Len(cells) <= cap
    THEN [pages |-> at :> Page("LeafTable", cells, None), last |-> at]
    ELSE LET k == Min(fan, Len(cells))
             kids == BuildKids("table", [j \in 1..k |-> Part(cells, k, j)], cap, fan, at + 1)
             page == Page("InteriorTable",
                          [j \in 1..(k - 1) |->
                              [left_child_page |-> kids.roots[j],
                               row_id |-> Part(cells, k, j)[Len(Part(cells, k, j))].row_id]],
                          Some(kids.roots[k]))
         IN  [pages |-> (at :> page) @@ kids.pages, last |-> kids.last]

\* an index B-tree over the sorted entries with its root at page `at`: k
\* children and, between them, k - 1 entries on the interior page
BuildIndex(entries, cap, fan, at) ==
    IF Len(entries) <= cap \/ Len(entries) < 3
    THEN [pages |-> at :> Page("LeafIndex",
                               [j \in 1..Len(entries) |-> [row_id |-> 0, payload |-> entries[j]]],
                               None),
          last |-> at]
    ELSE LET k == Min(fan, (Len(entries) + 1) \div 2)
             m == Len(entries) - (k - 1)
             \* the position of the j-th separator, after parts 1..j
             sep(j) == ((j * m) \div k) + j
             part(j) == SubSeq(entries, (IF j = 1 THEN 0 ELSE sep(j - 1)) + 1,
                               IF j = k THEN Len(entries) ELSE sep(j) - 1)
             kids == BuildKids("index", [j \in 1..k |-> part(j)], cap, fan, at + 1)
             page == Page("InteriorIndex",
                          [j \in 1..(k - 1) |->
                              [left_child_page |-> kids.roots[j], payload |-> entries[sep(j)]]],
                          Some(kids.roots[k]))
         IN  [pages |-> (at :> page) @@ kids.pages, last |-> kids.last]

\* the order of two values in an index: -1, 0, 1
ValueClass(v) == IF v.t = "Null" THEN 0 ELSE IF v.t = "Text" THEN 2 ELSE 1

NumberOf(v) == IF v.t = "Zero" THEN 0 ELSE IF v.t = "One" THEN 1 ELSE v.i

ValueCmp(x, y) ==
    IF ValueClass(x) # ValueClass(y) THEN (IF ValueClass(x) < ValueClass(y) THEN -1 ELSE 1)
    ELSE IF ValueClass(x) = 0 THEN 0
    ELSE IF ValueClass(x) = 2 THEN StrCmp(x.s, y.s)
    ELSE IF NumberOf(x) < NumberOf(y) THEN -1
    ELSE IF NumberOf(x) > NumberOf(y) THEN 1 ELSE 0

RECURSIVE EntryCmp(_, _)
EntryCmp(x, y) ==
    IF Len(x) = 0 THEN 0
    ELSE IF ValueCmp(x[1], y[1]) # 0 THEN ValueCmp(x[1], y[1])
    ELSE EntryCmp(Tail(x), Tail(y))

RECURSIVE InsertSorted(_, _)
InsertSorted(sorted, e) ==
    IF Len(sorted) = 0 THEN <<e>>
    ELSE IF EntryCmp(e, sorted[1]) < 0 THEN <<e>> \o sorted
    ELSE <<sorted[1]>> \o InsertSorted(Tail(sorted), e)

RECURSIVE SortEntries(_)
SortEntries(entries) ==
    IF Len(entries) = 0 THEN <<>>
    ELSE InsertSorted(SortEntries(Take(entries, Len(entries) - 1)), entries[Len(entries)])

\* the index entry of a table row: the indexed columns, then the row-id; a
\* column stored as NULL in a row-id alias table stands for the row-id
IndexEntry(row, alias, columns) ==
    [j \in 1..(Len(columns) + 1) |->
        IF j = Len(columns) + 1 THEN StoreInt(row.row_id)
        ELSE IF alias /\ columns[j] = 1 THEN StoreInt(row.row_id)
        ELSE row.payload[columns[j]]]

S_t == <<116>>

S_a == <<97>>

S_b == <<98>>

S_ix == <<105, 120>>

\* CREATE TABLE t (a <declaration of a>, b text)
CreateTableSql(kind) ==
    CASE kind = "alias" -> <<67, 82, 69, 65, 84, 69, 32, 84, 65, 66, 76, 69, 32, 116, 32, 40, 97, 32, 105, 110, 116, 101, 103, 101, 114, 32, 112, 114, 105, 109, 97, 114, 121, 32, 107, 101, 121, 44, 32, 98, 32, 116, 101, 120, 116, 41>>
      [] kind = "int" -> <<67, 82, 69, 65, 84, 69, 32, 84, 65, 66, 76, 69, 32, 116, 32, 40, 97, 32, 105, 110, 116, 101, 103, 101, 114, 44, 32, 98, 32, 116, 101, 120, 116, 41>>
      [] kind = "text" -> <<67, 82, 69, 65, 84, 69, 32, 84, 65, 66, 76, 69, 32, 116, 32, 40, 97, 32, 116, 101, 120, 116, 44, 32, 98, 32, 116, 101, 120, 116, 41>>

\* CREATE INDEX ix ON t (<columns>)
CreateIndexSql(columns) ==
    CASE columns = <<2>> -> <<67, 82, 69, 65, 84, 69, 32, 73, 78, 68, 69, 88, 32, 105, 120, 32, 79, 78, 32, 116, 32, 40, 98, 41>>
      [] columns = <<1, 2>> -> <<67, 82, 69, 65, 84, 69, 32, 73, 78, 68, 69, 88, 32, 105, 120, 32, 79, 78, 32, 116, 32, 40, 97, 44, 32, 98, 41>>
      [] columns = <<1>> -> <<67, 82, 69, 65, 84, 69, 32, 73, 78, 68, 69, 88, 32, 105, 120, 32, 79, 78, 32, 116, 32, 40, 97, 41>>

\* 4096, big-endian
PageSizeField == <<16, 0>>

\* the file of a table of the given rows (ascending row-ids), kind of first
\* column and tree shape, with an index on the given columns (<<>>: none)
BuildFile(rows, kind, tshape, columns, ishape) ==
    LET table == BuildTable(rows, tshape.cap, tshape.fan, 2)
        entries == SortEntries([j \in 1..Len(rows) |->
                                   IndexEntry(rows[j], kind = "alias", columns)])
        index == BuildIndex(entries, ishape.cap, ishape.fan, table.last + 1)
        schema_rows ==
            <<[row_id |-> 1,
               payload |-> <<Text(S_table), Text(S_t), Text(S_t), StoreInt(2),
                             Text(CreateTableSql(kind))>>]>>
            \o (IF columns = <<>> THEN <<>>
                ELSE <<[row_id |-> 2,
                        payload |-> <<Text(S_index), Text(S_ix), Text(S_t),
                                      StoreInt(table.last + 1),
                                      Text(CreateIndexSql(columns))>>]>>)
        pages == (1 :> Page("LeafTable", schema_rows, None)) @@ table.pages
                    @@ (IF columns = <<>> THEN <<>> ELSE index.pages)
    IN  [page_size |-> PageSizeField,
         npages |-> IF columns = <<>> THEN table.last ELSE index.last,
         pages |-> pages]

(***************************************************************************)
(* Inputs of the varint codec: 64-bit values with their encoding under the *)
(* SQLite rules, and raw byte sources.                                     *)
(***************************************************************************)
\* the u64 of an integer below 2^31
U64Of(n) == [i \in 1..8 |-> IF i <= 4 THEN 0 ELSE (n \div Pow(256, 8 - i)) % 256]

\* 2^k, for k in 0..63
U64Pow2(k) == [i \in 1..8 |-> IF i = 8 - (k \div 8) THEN Pow(2, k % 8) ELSE 0]

\* 2^k - 1, for k in 1..64
U64Pow2m1(k) ==
    [i \in 1..8 |->
        IF i > 8 - (k \div 8) THEN 255
        ELSE IF i = 8 - (k \div 8) THEN Pow(2, k % 8) - 1 ELSE 0]

\* bit k of v, bit 0 the least significant
U64Bit(v, k) == (v[8 - (k \div 8)] \div Pow(2, k % 8)) % 2

\* the seven bits of v from bit `from` upwards
Septet(v, from) ==
      U64Bit(v, from) + 2 * U64Bit(v, from + 1) + 4 * U64Bit(v, from + 2)
    + 8 * U64Bit(v, from + 3) + 16 * U64Bit(v, from + 4)
    + 32 * U64Bit(v, from + 5) + 64 * U64Bit(v, from + 6)

\* the number of 7-bit groups a value below 2^56 needs
SeptetCount(v) ==
    LET used == {j \in 1..8 : Septet(v, 7 * (j - 1)) # 0}
    IN  IF used = {} THEN 1 ELSE CHOOSE j \in used : \A k \in used : k <= j

\* the SQLite varint of v: 1 to 8 bytes of 7 bits with a continuation flag,
\* or 8 such bytes and a ninth byte of 8 bits
EncodeVarint(v) ==
    IF v[1] = 0
    THEN LET n == SeptetCount(v)
         IN  [i \in 1..n |-> Septet(v, 7 * (n - i)) + (IF i < n THEN 128 ELSE 0)]
    ELSE [i \in 1..9 |-> IF i = 9 THEN v[8] ELSE 128 + Septet(v, 8 + 7 * (8 - i))]

VarintCorpus ==
    {U64Of(n) : n \in {0, 1, 127, 128, 14398, 16566}}
        \cup {U64Pow2(k) : k \in 0..63}
        \cup {U64Pow2m1(k) : k \in 1..64}

MaxRawLen == 10

\* raw sources: `stop - 1` bytes with the high bit set, one byte with the high
\* bit clear, then filler, cut to n bytes
RawVarintSources ==
    {[i \in 1..n |-> IF i < stop THEN hi ELSE IF i = stop THEN lo ELSE fill] :
        n \in 0..MaxRawLen, stop \in 1..(MaxRawLen + 1),
        hi \in {128, 255}, lo \in {0, 127}, fill \in {129, 255}}

InitVarint ==
    /\ file = NoFile
    /\ \/ \E v \in VarintCorpus : args = [value |-> v] /\ src = EncodeVarint(v)
       \/ args = [value |-> <<>>] /\ src \in RawVarintSources
    /\ op = "init"
    /\ result = NoResult
    /\ stdout = <<>>

DoReadVarint ==
    /\ op = "init"
    /\ op' = "read_varint"
    /\ result' = read_varint(src)
    /\ UNCHANGED <<file, src, args, stdout>>

NextVarint == DoReadVarint

SpecVarint == InitVarint /\ [][NextVarint]_vars

(***************************************************************************)
(* Inputs of the serial value decoder.                                     *)
(***************************************************************************)
MaxSerialType == 19

MaxSrcLen == 9

SourceBytes == {65, 128, 195, 255}

\* sources of n bytes whose first and last byte vary
SerialSources ==
    {[i \in 1..n |-> IF i = 1 THEN a ELSE IF i = n THEN b ELSE 16 + i] :
        n \in 0..MaxSrcLen, a \in SourceBytes, b \in SourceBytes}

InitSerial ==
    /\ file = NoFile
    /\ \E t \in 0..MaxSerialType : args = [serial_type |-> t]
    /\ src \in SerialSources
    /\ op = "init"
    /\ result = NoResult
    /\ stdout = <<>>

DoSerialRead ==
    /\ op = "init"
    /\ op' = "SerialValue::read"
    /\ result' = SerialValue_read(args.serial_type, src)
    /\ UNCHANGED <<file, src, args, stdout>>

NextSerial == DoSerialRead

SpecSerial == InitSerial /\ [][NextSerial]_vars

(***************************************************************************)
(* Inputs of the header decoder and the pager: files of every page size    *)
(* the format allows (the field 1 standing for 65536), of 1 to MaxPages    *)
(* pages.                                                                  *)
(***************************************************************************)
MaxPages == 3

\* 1, 512, 1024, ..., 32768, big-endian
PageSizeFields ==
    {<<0, 1>>, <<2, 0>>, <<4, 0>>, <<8, 0>>, <<16, 0>>, <<32, 0>>, <<64, 0>>, <<128, 0>>}

HeaderFiles ==
    {[page_size |-> ps, npages |-> n,
      pages |-> [p \in 1..n |-> Page("LeafTable", <<>>, None)]] :
        ps \in PageSizeFields, n \in 1..MaxPages}

\* load_page_at: `vec![0u8; self.header.page_size() as usize]`
page_buffer_len(f) == page_size(f.page_size)

InitHeader ==
    /\ file \in HeaderFiles
    /\ src = <<>>
    /\ op = "init"
    /\ args = NoArgs
    /\ result = NoResult
    /\ stdout = <<>>

DoPageSize ==
    /\ op = "init"
    /\ op' = "page_size"
    /\ args' = NoArgs
    /\ result' = Ok(page_size(file.page_size))
    /\ UNCHANGED <<file, src, stdout>>

DoNew ==
    /\ op = "init"
    /\ op' = "DBFile::new"
    /\ args' = NoArgs
    /\ result' = DBFile_new(file)
    /\ UNCHANGED <<file, src, stdout>>

DoLoadPageAt ==
    \E page \in 1..(file.npages + 1) :
        /\ op = "init"
        /\ op' = "load_page_at"
        /\ args' = [page |-> page, offset |-> seek_to_page(file, page),
                    buf_len |-> page_buffer_len(file)]
        /\ result' = load_page_at(file, page)
        /\ UNCHANGED <<file, src, stdout>>

NextHeader == DoPageSize \/ DoNew \/ DoLoadPageAt

SpecHeader == InitHeader /\ [][NextHeader]_vars

(***************************************************************************)
(* Inputs of the table traversals: tables whose rows have any subset of    *)
(* the row-ids 1..MaxRowId, whose first column is the row-id alias (stored *)
(* as NULL), another integer column or a text column, in B-trees of one,   *)
(* two and three levels.                                                   *)
(***************************************************************************)
MaxRowId == 4

FirstColumnKinds == {"alias", "int", "text"}

\* leaves of one cell under binary interior pages; leaves of two cells under
\* ternary interior pages; one leaf
TreeShapes == {[cap |-> 1, fan |-> 2], [cap |-> 2, fan |-> 3], [cap |-> 64, fan |-> 2]}

\* the first column of the row of that row-id
FirstColumn(kind, row_id) ==
    CASE kind = "alias" -> Null
      [] kind = "int" -> StoreInt((3 * row_id) % 5)
      [] kind = "text" -> Text(<<119, 48 + row_id>>)

RECURSIVE Ascending(_)
\* the ascending list of the members of ids
Ascending(ids) ==
    IF ids = {} THEN <<>>
    ELSE LET m == CHOOSE x \in ids : \A y \in ids : y <= x
         IN  Append(Ascending(ids \ {m}), m)

\* the rows of the row-ids of ids in ascending order, the second column of
\* each given by b
RowsOf(ids, kind, b) ==
    [i \in 1..Cardinality(ids) |->
        [row_id |-> Ascending(ids)[i],
         payload |-> <<FirstColumn(kind, Ascending(ids)[i]), b[Ascending(ids)[i]]>>]]

TableFixtures ==
    {[rows |-> RowsOf(ids, kind, [n \in ids |-> Text(<<96 + n>>)]), kind |-> kind,
      tshape |-> shape, columns |-> <<>>, ishape |-> shape] :
        ids \in SUBSET (1..MaxRowId), kind \in FirstColumnKinds, shape \in TreeShapes}

FileOf(fx) == BuildFile(fx.rows, fx.kind, fx.tshape, fx.columns, fx.ishape)

\* the root page of table t, as main loads it
TableRoot(f) == load_page_at(f, schema_for_table(DBFile_new(f).val, S_t).val.root_page.v).val

InitTable ==
    /\ src \in TableFixtures
    /\ file = FileOf(src)
    /\ op = "init"
    /\ args = NoArgs
    /\ result = NoResult
    /\ stdout = <<>>

DoScan ==
    /\ op = "init"
    /\ op' = "select_without_index"
    /\ args' = NoArgs
    /\ result' = select_without_index(file, TableRoot(file))
    /\ UNCHANGED <<file, src, stdout>>

DoLookup ==
    \E ids \in SUBSET (1..(MaxRowId + 1)) :
        /\ op = "init"
        /\ op' = "select_with_index"
        /\ args' = [row_ids |-> Ascending(ids)]
        /\ result' = select_with_index(file, TableRoot(file), Ascending(ids))
        /\ UNCHANGED <<file, src, stdout>>

NextTable == DoScan \/ DoLookup

SpecTable == InitTable /\ [][NextTable]_vars

(***************************************************************************)
(* The lookup with the pages it loads, on the tables of SpecTable and for  *)
(* the same ascending row-id lists.                                        *)
(***************************************************************************)
DoLookupVisit ==
    \E ids \in SUBSET (1..(MaxRowId + 1)) :
        /\ op = "init"
        /\ op' = "select_with_index_visit"
        /\ args' = [row_ids |-> Ascending(ids),
                    root |-> schema_for_table(DBFile_new(file).val, S_t).val.root_page.v]
        /\ result' = LookupVisit(file, TableRoot(file), Ascending(ids))
        /\ UNCHANGED <<file, src, stdout>>

NextRoute == DoLookupVisit

SpecRoute == InitTable /\ [][NextRoute]_vars

(***************************************************************************)
(* Inputs of the two ways to page 1: the first page of a database file,    *)
(* that is the 100-byte database header, whose first 16 bytes are the      *)
(* string "SQLite format 3\000", then the page header of the schema        *)
(* B-tree, its cell pointers and zeros up to the page size.                *)
(***************************************************************************)
MaxFirstCells == 3

\* "SQLite format 3\000"
MagicString == <<83, 81, 76, 105, 116, 101, 32, 102, 111, 114, 109, 97, 116, 32, 51, 0>>

FirstPageSizes == {512, 1024}

\* offsets of cells on the page
FirstCellPointers == {400, 450, 500}

FirstPageKinds == {5, 13}

ZeroBytes(n) == [k \in 1..n |-> 0]

U16Bytes(n) == <<n \div 256, n % 256>>

\* the database header: the magic string, the page size, the version and
\* payload-fraction bytes, and the fields the program does not read
FirstHeader(ps) == MagicString \o U16Bytes(ps) \o <<1, 1, 0, 64, 32, 32>> \o ZeroBytes(76)

\* the page header of a page of that kind with those cell pointers (an
\* interior page has the right-most pointer 2)
FirstPageHeader(kind, ptrs) ==
    <<kind, 0, 0>> \o U16Bytes(Len(ptrs)) \o U16Bytes(400) \o <<0>>
        \o (IF kind = 5 THEN <<0, 0, 0, 2>> ELSE <<>>)
        \o [k \in 1..(2 * Len(ptrs)) |-> U16Bytes(ptrs[(k + 1) \div 2])[2 - (k % 2)]]

FirstPageBytes(ps, kind, ptrs) ==
    FirstHeader(ps) \o FirstPageHeader(kind, ptrs)
        \o ZeroBytes(ps - DBHeaderSize - Len(FirstPageHeader(kind, ptrs)))

FirstPages ==
    {FirstPageBytes(ps, kind, ptrs) :
        ps \in FirstPageSizes, kind \in FirstPageKinds,
        ptrs \in UNION {[1..n -> FirstCellPointers] : n \in 0..MaxFirstCells}}

InitFirst ==
    /\ src \in FirstPages
    /\ file = NoFile
    /\ op = "init"
    /\ args = NoArgs
    /\ result = NoResult
    /\ stdout = <<>>

\* the bootstrap of DBFile::new
DoOpenFirst ==
    /\ op = "init"
    /\ op' = "open_first_page"
    /\ args' = NoArgs
    /\ result' = DBFile_new_first_page(src)
    /\ UNCHANGED <<file, src, stdout>>

\* load_page_at(1)
DoLoadFirst ==
    /\ op = "init"
    /\ op' = "load_first_page"
    /\ args' = [page |-> 1]
    /\ result' = load_page_at_first(src)
    /\ UNCHANGED <<file, src, stdout>>

NextFirst == DoOpenFirst \/ DoLoadFirst

SpecFirst == InitFirst /\ [][NextFirst]_vars

(***************************************************************************)
(* Inputs of the cell decoder: a leaf page of either kind with one cell    *)
(* whose record has 0..MaxCellColumns columns.  The row-id is read on      *)
(* table leaves only.                                                      *)
(***************************************************************************)
MaxCellColumns == 3

CellValues == {Null, One, Int8(7), Text(<<97>>)}

CellRowIds == {1, 2, 200}

CellRecords == UNION {[1..n -> CellValues] : n \in 0..MaxCellColumns}

CellSources ==
    {[page_type |-> "LeafTable", cell |-> [row_id |-> id, payload |-> rec]] :
        id \in CellRowIds, rec \in CellRecords}
    \cup {[page_type |-> "LeafIndex", cell |-> [row_id |-> 0, payload |-> rec]] :
            rec \in CellRecords}

InitCell ==
    /\ src \in CellSources
    /\ file = NoFile
    /\ op = "init"
    /\ args = NoArgs
    /\ result = NoResult
    /\ stdout = <<>>

DoReadCell ==
    /\ op = "init"
    /\ op' = "read_cell"
    /\ args' = NoArgs
    /\ result' = read_cell(Page(src.page_type, <<src.cell>>, None), src.cell)
    /\ UNCHANGED <<file, src, stdout>>

NextCell == DoReadCell

SpecCell == InitCell /\ [][NextCell]_vars

(***************************************************************************)
(* Inputs of the index search: tables of rows 1..n, n <= MaxIndexRows,     *)
(* whose second column is NULL, an integer or a text, with an index on     *)
(* that column in B-trees of one and two levels.  SQLite keeps a value of  *)
(* either type in a column without TEXT or NUMERIC affinity.               *)
(***************************************************************************)
MaxIndexRows == 4

\* NULL, 5, 10, 'a' and the text '5', which displays as the integer 5 does
IndexValues == {Null, StoreInt(5), StoreInt(10), Text(<<97>>), Text(<<53>>)}

\* "5", "10", "a", "(null)"
IndexQueries == {<<53>>, <<49, 48>>, <<97>>, S_null}

IndexFixtures ==
    UNION {{[rows |-> RowsOf(1..n, "alias", b), kind |-> "alias",
             tshape |-> [cap |-> 64, fan |-> 2], columns |-> <<2>>, ishape |-> shape] :
               b \in [1..n -> IndexValues], shape \in TreeShapes} :
           n \in 0..MaxIndexRows}

\* the root page of the index on column b, as select_rows loads it
IndexRoot(f) == load_page_at(f, get_index_page(DBFile_new(f).val, S_t, S_b).val.v).val

InitIndex ==
    /\ src \in IndexFixtures
    /\ file = FileOf(src)
    /\ op = "init"
    /\ args = NoArgs
    /\ result = NoResult
    /\ stdout = <<>>

DoSearchIndex ==
    \E query \in IndexQueries :
        /\ op = "init"
        /\ op' = "search_index"
        /\ args' = [query |-> query]
        /\ result' = search_index(file, IndexRoot(file), query)
        /\ UNCHANGED <<file, src, stdout>>

NextIndex == DoSearchIndex

SpecIndex == InitIndex /\ [][NextIndex]_vars

(***************************************************************************)
(* Inputs of the traversal of interior index pages: tables of the rows     *)
(* 2..n+1, n <= MaxVisitRows, with an index on the second column whose     *)
(* root is an interior page of one or two cells over leaves, or a single   *)
(* leaf.  No entry has the row-id 0 or 1.                                  *)
(***************************************************************************)
MaxVisitRows == 5

VisitValues == {StoreInt(5), StoreInt(10), Text(<<97>>)}

\* "5", "10", "a", "b"
VisitQueries == {<<53>>, <<49, 48>>, <<97>>, <<98>>}

VisitFixtures ==
    UNION {{[rows |-> RowsOf(2..(n + 1), "alias", b), kind |-> "alias",
             tshape |-> [cap |-> 64, fan |-> 2], columns |-> <<2>>,
             ishape |-> [cap |-> 1, fan |-> 3]] :
               b \in [2..(n + 1) -> VisitValues]} :
           n \in 1..MaxVisitRows}

InitVisit ==
    /\ src \in VisitFixtures
    /\ file = FileOf(src)
    /\ op = "init"
    /\ args = NoArgs
    /\ result = NoResult
    /\ stdout = <<>>

\* search_index on the root of the index, with the pages it loads
DoSearchIndexVisit ==
    \E query \in VisitQueries :
        /\ op = "init"
        /\ op' = "search_index_visit"
        /\ args' = [query |-> query, root |-> get_index_page(DBFile_new(file).val, S_t, S_b).val.v]
        /\ result' = SearchIndexVisit(file, IndexRoot(file), query)
        /\ UNCHANGED <<file, src, stdout>>

NextVisit == DoSearchIndexVisit

SpecVisit == InitVisit /\ [][NextVisit]_vars

(***************************************************************************)
(* Inputs of the search of a leaf index page: a page of up to MaxLeafCells *)
(* entries in index order, each of one or two indexed columns followed by  *)
(* the row-id, stored as the record format stores it.                      *)
(***************************************************************************)
MaxLeafCells == 2

LeafKeyValues == {StoreInt(5), Text(<<97>>)}

LeafRowIds == 0..3

\* "5", "a"
LeafQueries == {<<53>>, <<97>>}

LeafEntries(columns) ==
    {key \o <<StoreInt(id)>> : key \in [1..columns -> LeafKeyValues], id \in LeafRowIds}

LeafPages ==
    UNION {{cells \in UNION {[1..n -> LeafEntries(columns)] : n \in 0..MaxLeafCells} :
               \A i \in 1..(Len(cells) - 1) : EntryCmp(cells[i], cells[i + 1]) < 0} :
           columns \in 1..2}

InitLeaf ==
    /\ src \in LeafPages
    /\ file = NoFile
    /\ op = "init"
    /\ args = NoArgs
    /\ result = NoResult
    /\ stdout = <<>>

\* search_index on a leaf index page of the entries of src
DoSearchLeaf ==
    \E query \in LeafQueries :
        /\ op = "init"
        /\ op' = "search_leaf"
        /\ args' = [query |-> query]
        /\ result' = search_index(file,
                                  Page("LeafIndex",
                                       [j \in 1..Len(src) |-> [row_id |-> 0, payload |-> src[j]]],
                                       None),
                                  query)
        /\ UNCHANGED <<file, src, stdout>>

NextLeaf == DoSearchLeaf

SpecLeaf == InitLeaf /\ [][NextLeaf]_vars

(***************************************************************************)
(* Inputs of the program: the SQL commands on databases of one table of    *)
(* rows 1..n, n <= MaxMainRows, without an index or with an index on (a),  *)
(* (b) or (a, b).                                                          *)
(***************************************************************************)
MaxMainRows == 3

MainValues == {Text(<<97>>), StoreInt(5)}

IndexOptions == {<<>>, <<1>>, <<2>>, <<1, 2>>}

MainShapes == {[cap |-> 1, fan |-> 2], [cap |-> 64, fan |-> 2]}

MainFixtures ==
    UNION {{[rows |-> RowsOf(1..n, kind, b), kind |-> kind,
             tshape |-> shape, columns |-> columns, ishape |-> shape] :
               b \in [1..n -> MainValues], kind \in {"alias", "text"},
               columns \in IndexOptions, shape \in MainShapes} :
           n \in 0..MaxMainRows}

Projections == {<<S_a, S_b>>, <<S_b>>}

\* none, b = 'a', b = '5', a = '2'
WhereClauses ==
    {[some |-> FALSE, v |-> [column |-> <<>>, value |-> <<>>]],
     Some([column |-> S_b, value |-> <<97>>]),
     Some([column |-> S_b, value |-> <<53>>]),
     Some([column |-> S_a, value |-> <<50>>])}

\* "COUNT(*)", "count(*)", "Count(*)"
CountSpellings == {S_COUNT, S_count, <<67>> \o SubSeq(S_count, 2, 8)}

\* SELECT <items> FROM t [WHERE <column> = '<value>']
CommandText(items, where) ==
    S_SELECT \o <<32>> \o Join(items, <<44, 32>>) \o <<32>> \o S_FROM \o <<32>> \o S_t
        \o (IF where.some
            THEN <<32>> \o S_WHERE \o <<32>> \o where.v.column \o <<32, 61, 32, 39>>
                    \o where.v.value \o <<39>>
            ELSE <<>>)

Init ==
    /\ src \in MainFixtures
    /\ file = FileOf(src)
    /\ op = "init"
    /\ args = NoArgs
    /\ result = NoResult
    /\ stdout = <<>>

\* the program run on a SELECT of columns
DoSelect ==
    \E items \in Projections, where \in WhereClauses :
        /\ op = "init"
        /\ op' = "select"
        /\ args' = [command |-> CommandText(items, where), select |-> items, where |-> where]
        /\ result' = main_sql(file, CommandText(items, where))
        /\ stdout' = result'.out
        /\ UNCHANGED <<file, src>>

\* the program run on a SELECT of COUNT(*) in some letter case
DoCount ==
    \E spelling \in CountSpellings, where \in WhereClauses :
        /\ op = "init"
        /\ op' = "count"
        /\ args' = [command |-> CommandText(<<spelling>>, where), select |-> <<spelling>>,
                    where |-> where]
        /\ result' = main_sql(file, CommandText(<<spelling>>, where))
        /\ stdout' = result'.out
        /\ UNCHANGED <<file, src>>

Next == DoSelect \/ DoCount

Spec == Init /\ [][Next]_vars

(***************************************************************************)
(* Inputs of the program: SELECT commands on tables some of whose stored   *)
(* records hold the first column only, as the records written before a     *)
(* column was added to the table do.  The tables have no index.            *)
(***************************************************************************)
MaxShortRows == 3

\* the columns of a row after the first: 'a', 5 or none stored
ShortValues == {<<Text(<<97>>)>>, <<StoreInt(5)>>, <<>>}

ShortRows(n, kind, b) ==
    [i \in 1..n |->
        [row_id |-> i,
         payload |-> <<FirstColumn(kind, i)>> \o b[i]]]

ShortFixtures ==
    UNION {{[rows |-> ShortRows(n, kind, b), kind |-> kind,
             tshape |-> shape, columns |-> <<>>, ishape |-> shape] :
               b \in [1..n -> ShortValues], kind \in {"alias", "text"},
               shape \in MainShapes} :
           n \in 0..MaxShortRows}

InitShort ==
    /\ src \in ShortFixtures
    /\ file = FileOf(src)
    /\ op = "init"
    /\ args = NoArgs
    /\ result = NoResult
    /\ stdout = <<>>

\* the program run on a SELECT of columns of such a table
DoSelectShort ==
    \E items \in Projections \cup {<<S_a>>}, where \in WhereClauses :
        /\ op = "init"
        /\ op' = "select_short"
        /\ args' = [command |-> CommandText(items, where), select |-> items, where |-> where]
        /\ result' = main_sql(file, CommandText(items, where))
        /\ stdout' = result'.out
        /\ UNCHANGED <<file, src>>

NextShort == DoSelectShort

SpecShort == InitShort /\ [][NextShort]_vars

(***************************************************************************)
(* Inputs of the program: SELECT commands that name a table that the       *)
(* schema does not hold, or a column that the table does not have (in the  *)
(* select list or in the WHERE clause), on the same databases.             *)
(***************************************************************************)
\* "u", a table that no database of the model holds
S_u == <<117>>

\* "z", a column that table t does not have
S_z == <<122>>

\* SELECT <items> FROM <table> [WHERE <column> = '<value>']
CommandTextOn(table, items, where) ==
    S_SELECT \o <<32>> \o Join(items, <<44, 32>>) \o <<32>> \o S_FROM \o <<32>> \o table
        \o (IF where.some
            THEN <<32>> \o S_WHERE \o <<32>> \o where.v.column \o <<32, 61, 32, 39>>
                    \o where.v.value \o <<39>>
            ELSE <<>>)

\* the columns that the command names
NamedColumns(select, where) ==
    {select[k] : k \in {j \in 1..Len(select) : ~eq_ignore_ascii_case(select[j], S_count)}}
        \cup (IF where.some THEN {where.v.column} ELSE {})

\* the commands that name table u, or column z of table t
AbsentCommands ==
    {c \in [table : {S_t, S_u},
            select : {<<S_a>>, <<S_z>>, <<S_b, S_z>>, <<S_count>>},
            where : {[some |-> FALSE, v |-> [column |-> <<>>, value |-> <<>>]],
                     Some([column |-> S_b, value |-> <<97>>]),
                     Some([column |-> S_z, value |-> <<97>>])}] :
        c.table = S_u \/ S_z \in NamedColumns(c.select, c.where)}

\* the program run on a SELECT that names an absent table or column
DoSelectAbsent ==
    \E c \in AbsentCommands :
        /\ op = "init"
        /\ op' = "select_absent"
        /\ args' = [command |-> CommandTextOn(c.table, c.select, c.where),
                    table |-> c.table, select |-> c.select, where |-> c.where]
        /\ result' = main_sql(file, CommandTextOn(c.table, c.select, c.where))
        /\ stdout' = result'.out
        /\ UNCHANGED <<file, src>>

NextAbsent == DoSelectAbsent

SpecAbsent == Init /\ [][NextAbsent]_vars

(***************************************************************************)
(* Inputs of the schema catalog: schema pages of up to MaxSchemaRows rows  *)
(* of every kind.  A table or an index has its root page number in the     *)
(* rootpage column, in any of the integer widths of the record format; a   *)
(* view or a trigger has NULL or 0 there.                                  *)
(***************************************************************************)
MaxSchemaRows == 3

S_sqlite_sequence == SQLITE_TABLE_PREFIX \o <<115, 101, 113>>

S_v == <<118>>

S_tr == <<116, 114>>

\* a row of sqlite_schema: type, name, tbl_name, rootpage, sql
SchemaRow(type, name, tbl_name, rootpage) ==
    <<Text(type), Text(name), Text(tbl_name), rootpage, Text(<<>>)>>

\* root page numbers in every integer width of the record format (a number
\* above 127 cannot be stored in one byte), and the literal 1
RootPages ==
    {Int8(2), Int8(127), SV("Int16", 128, <<>>), SV("Int16", 300, <<>>),
     SV("Int24", 40000, <<>>), SV("Int32", 9000000, <<>>),
     SV("Int48", 9000001, <<>>), SV("Int64", 9000002, <<>>), One}

SchemaRows ==
    {SchemaRow(S_table, S_t, S_t, Int8(2)),
     SchemaRow(S_table, S_sqlite_sequence, S_sqlite_sequence, Int8(3)),
     SchemaRow(S_index, S_ix, S_t, Int8(4)),
     SchemaRow(S_view, S_v, S_v, Null),
     SchemaRow(S_view, S_v, S_v, Zero),
     SchemaRow(S_trigger, S_tr, S_t, Null)}
        \cup {SchemaRow(S_table, S_u, S_u, root) : root \in RootPages}

\* the file whose schema page holds the rows
SchemaFile(rows) ==
    [page_size |-> PageSizeField, npages |-> 1,
     pages |-> <<Page("LeafTable",
                      [k \in 1..Len(rows) |-> [row_id |-> k, payload |-> rows[k]]],
                      None)>>]

InitSchema ==
    /\ \E n \in 0..MaxSchemaRows : src \in [1..n -> SchemaRows]
    /\ file = SchemaFile(src)
    /\ op = "init"
    /\ args = NoArgs
    /\ result = NoResult
    /\ stdout = <<>>

\* the program run on the .tables command
DoTables ==
    /\ op = "init"
    /\ op' = ".tables"
    /\ args' = NoArgs
    /\ result' = main_tables(file)
    /\ stdout' = result'.out
    /\ UNCHANGED <<file, src>>

DoTableObjects ==
    /\ op = "init"
    /\ op' = "table_objects"
    /\ args' = NoArgs
    /\ result' = table_objects(DBFile_new(file).val)
    /\ UNCHANGED <<file, src, stdout>>

DoLoadSchemas ==
    /\ op = "init"
    /\ op' = "load_schemas"
    /\ args' = NoArgs
    /\ result' = load_schemas(DBFile_new(file).val.first_page)
    /\ UNCHANGED <<file, src, stdout>>

NextSchema == DoTables \/ DoTableObjects \/ DoLoadSchemas

SpecSchema == InitSchema /\ [][NextSchema]_vars

(***************************************************************************)
(* Inputs of the parser: CREATE TABLE statements of 1 to MaxColumns        *)
(* columns, their keywords in upper, lower and mixed case, their tokens    *)
(* separated by a space, by a newline or by several blanks; the column     *)
(* names are plain or double-quoted, with and without a space.             *)
(***************************************************************************)
MaxColumns == 3

\* the words of a column definition, and the name it declares
ColumnDefs ==
    {[words |-> <<S_a, <<105, 110, 116, 101, 103, 101, 114>>,
                  <<112, 114, 105, 109, 97, 114, 121>>, <<107, 101, 121>>>>,
      name |-> S_a],
     [words |-> <<S_b, <<116, 101, 120, 116>>>>, name |-> S_b],
     [words |-> <<<<34, 115, 105, 122, 101, 32, 114, 97, 110, 103, 101, 34>>,
                  <<116, 101, 120, 116>>>>,
      name |-> <<115, 105, 122, 101, 32, 114, 97, 110, 103, 101>>],
     [words |-> <<<<34, 105, 100, 34>>, <<116, 101, 120, 116>>>>, name |-> <<105, 100>>]}

LetterCases == {"upper", "lower", "mixed"}

\* " ", "\n", " \t\n "
Blanks == {<<32>>, <<10>>, <<32, 9, 10, 32>>}

\* the keyword in that letter case
KeywordIn(case, word) ==
    [k \in 1..Len(word) |->
        IF case = "lower" \/ (case = "mixed" /\ k % 2 = 0) THEN AsciiLower(word[k])
        ELSE word[k]]

\* CREATE TABLE t ( <column definition> , ... )
CreateTableText(case, blank, defs) ==
    KeywordIn(case, S_CREATE) \o blank \o KeywordIn(case, S_TABLE) \o blank \o S_t
        \o blank \o <<40>> \o blank
        \o Join([k \in 1..Len(defs) |-> Join(defs[k].words, blank)], blank \o <<44>> \o blank)
        \o blank \o <<41>>

InitParse ==
    /\ \E case \in LetterCases, blank \in Blanks, n \in 1..MaxColumns :
          \E defs \in [1..n -> ColumnDefs] :
              /\ src = CreateTableText(case, blank, defs)
              /\ args = [name |-> S_t, columns |-> [k \in 1..n |-> defs[k].name]]
    /\ file = NoFile
    /\ op = "init"
    /\ result = NoResult
    /\ stdout = <<>>

DoParse ==
    /\ op = "init"
    /\ op' = "sql_statement"
    /\ result' = sql_statement(src)
    /\ UNCHANGED <<file, src, args, stdout>>

NextParse == DoParse

SpecParse == InitParse /\ [][NextParse]_vars

(***************************************************************************)
(* Claims about the varint codec (checked under SpecVarint).               *)
(***************************************************************************)
\* bit k (0 the least significant) of the 56 bits that the low seven bits of
\* the first eight bytes of a nine-byte varint spell
NineFormBit(data, k) == ((data[8 - (k \div 7)] % 128) \div Pow(2, k % 7)) % 2

\* the value of a nine-byte varint under the SQLite rules
NineFormValue(data) ==
    [d \in 1..8 |->
        IF d = 8 THEN data[9]
        ELSE   NineFormBit(data, 8 * (7 - d)) + 2 * NineFormBit(data, 8 * (7 - d) + 1)
             + 4 * NineFormBit(data, 8 * (7 - d) + 2) + 8 * NineFormBit(data, 8 * (7 - d) + 3)
             + 16 * NineFormBit(data, 8 * (7 - d) + 4) + 32 * NineFormBit(data, 8 * (7 - d) + 5)
             + 64 * NineFormBit(data, 8 * (7 - d) + 6) + 128 * NineFormBit(data, 8 * (7 - d) + 7)]

\* C6: for every value v in [0, 2^64), read_varint on the SQLite varint of v
\* returns v and consumes exactly the bytes of the (minimal, 1 to 9 byte)
\* encoding, the nine-byte form of v >= 2^56 included.
C6_VarintRoundTrip ==
    (op = "read_varint" /\ args.value # <<>>) =>
        /\ result.st = "ok"
        /\ result.val = args.value
        /\ result.pos = Len(src)
        /\ Len(src) \in 1..9

\* C7: read_varint never reads beyond the ninth byte of its source; among the
\* first eight bytes the read stops at the first one with its high bit clear,
\* and when all eight have the high bit set the ninth byte contributes all
\* eight bits and ends the read, whatever its high bit is.
C7_NeverBeyondNinth ==
    (op = "read_varint") =>
        /\ result.reads <= 9
        /\ \A k \in 1..8 :
              (Len(src) >= k /\ src[k] < 128 /\ \A i \in 1..(k - 1) : src[i] >= 128)
                  => (result.st = "ok" /\ result.pos = k)
        /\ (Len(src) >= 9 /\ \A i \in 1..8 : src[i] >= 128)
              => /\ result.st = "ok"
                 /\ result.pos = 9
                 /\ result.val = NineFormValue(src)

(***************************************************************************)
(* Claims about the serial value decoder (checked under SpecSerial).       *)
(***************************************************************************)
\* the number of bytes the record format gives a value of serial type t
SerialWidth(t) ==
    CASE t \in {0, 8, 9, 10, 11} -> 0
      [] t \in 1..4 -> t
      [] t = 5 -> 6
      [] t \in {6, 7} -> 8
      [] t >= 12 /\ t % 2 = 0 -> (t - 12) \div 2
      [] t >= 13 /\ t % 2 = 1 -> (t - 13) \div 2

SerialKind(t) ==
    CASE t = 0 -> "Null"
      [] t = 1 -> "Int8"
      [] t = 2 -> "Int16"
      [] t = 3 -> "Int24"
      [] t = 4 -> "Int32"
      [] t = 5 -> "Int48"
      [] t = 6 -> "Int64"
      [] t = 7 -> "Float64"
      [] t = 8 -> "Zero"
      [] t = 9 -> "One"
      [] t >= 12 /\ t % 2 = 0 -> "Blob"
      [] t >= 13 /\ t % 2 = 1 -> "Text"

\* v is the two's complement big-endian reading of the w bytes at the head
\* of data
IsSignedBE(v, w, data) ==
    IF w <= 4
    THEN \A k \in 1..w : (v \div Pow(256, w - k)) % 256 = data[k]
    ELSE /\ Len(v) * 2 = w
         /\ \A k \in 1..Len(v) :
               /\ (v[k] \div 256) % 256 = data[2 * k - 1]
               /\ v[k] % 256 = data[2 * k]
         /\ (v[1] < 0 <=> data[1] >= 128)

EncodedPageSize(field) ==
    IF field[1] * 256 + field[2] = 1 THEN 65536 ELSE field[1] * 256 + field[2]

\* C8: the page size exposed by the header decoder is the big-endian 16-bit
\* value of header bytes 16..17, the stored value 1 being exposed as 65536,
\* and the pager uses that value as the length of the page buffer and as the
\* multiplier of (page_no - 1) for the page offset.
C8_PageSizeExposed ==
    /\ (op = "page_size") => result.val = EncodedPageSize(file.page_size)
    /\ (op = "load_page_at") =>
          /\ args.buf_len = EncodedPageSize(file.page_size)
          /\ args.offset = (args.page - 1) * EncodedPageSize(file.page_size)

(***************************************************************************)
(* Claims about the table traversals (checked under SpecTable).            *)
(***************************************************************************)
\* the pages of the table B-tree that are leaves (page 1 is the schema)
TableLeafPages(f) == {p \in 2..f.npages : f.pages[p].page_type = "LeafTable"}

\* the leaf cells of the table B-tree, each with its page
TableLeafCells(f) ==
    UNION {{[page |-> p, cell |-> f.pages[p].cells[i]] : i \in 1..Len(f.pages[p].cells)} :
              p \in TableLeafPages(f)}

RECURSIVE CellCountOf(_, _)
\* the sum of the cell counts of the pages of the set
CellCountOf(f, pages) ==
    IF pages = {} THEN 0
    ELSE LET p == CHOOSE q \in pages : TRUE
         IN  Len(f.pages[p].cells) + CellCountOf(f, pages \ {p})

LeafCellCount(f) == CellCountOf(f, TableLeafPages(f))

\* the leaf cell with exactly k - 1 leaf cells of smaller row-id
LeafCellOfRank(f, k) ==
    CHOOSE c \in TableLeafCells(f) :
        Cardinality({d \in TableLeafCells(f) : d.cell.row_id < c.cell.row_id}) = k - 1

\* the row of a leaf cell: its record, a NULL first column standing for the
\* row-id
RowOfCell(c) ==
    IF c.cell.payload[1] = Null
    THEN [c.cell.payload EXCEPT ![1] = Int64(c.cell.row_id)]
    ELSE c.cell.payload

\* C3: the full scan of a table B-tree of any height returns the rows in
\* strictly ascending row-id order, as many as the leaf pages of the tree hold
\* cells, each leaf cell exactly once.
C3_ScanAscendingComplete ==
    (op = "select_without_index") =>
        /\ result.st = "ok"
        /\ Len(result.val) = LeafCellCount(file)
        /\ Cardinality(TableLeafCells(file)) = LeafCellCount(file)
        /\ \A k \in 1..Len(result.val) : result.val[k] = RowOfCell(LeafCellOfRank(file, k))

\* a tree of three levels was scanned: an interior page below the interior
\* root, and rows from more than two leaves
C3_Witness ==
    /\ op = "select_without_index"
    /\ file.pages[2].page_type = "InteriorTable"
    /\ \E p \in 3..file.npages : file.pages[p].page_type = "InteriorTable"
    /\ Cardinality(TableLeafPages(file)) > 2
    /\ result.st = "ok"
    /\ Len(result.val) > 2

\* the leaf cell of that row-id
LeafCellOfRowId(f, id) == CHOOSE c \in TableLeafCells(f) : c.cell.row_id = id

HasRowId(f, id) == \E c \in TableLeafCells(f) : c.cell.row_id = id

\* C4: for an ascending list of row-ids that are all present, the lookup
\* returns one row per id in the order of the list, the i-th being the row
\* whose cell row-id is the i-th id, whatever the type of the first column
\* (row-id alias, other integer, text).
C4_LookupReturnsRequested ==
    (op = "select_with_index" /\ \A i \in 1..Len(args.row_ids) : HasRowId(file, args.row_ids[i]))
        => /\ result.st = "ok"
           /\ Len(result.val) = Len(args.row_ids)
           /\ \A i \in 1..Len(args.row_ids) :
                 result.val[i] = RowOfCell(LeafCellOfRowId(file, args.row_ids[i]))

\* C5: the lookup of a row-id that is not in the table ends with an error; it
\* returns no row with another (greater) row-id in its place.
C5_AbsentRowIdIsError ==
    (op = "select_with_index" /\ \E i \in 1..Len(args.row_ids) : ~HasRowId(file, args.row_ids[i]))
        => result.st = "err"

(***************************************************************************)
(* Claims about the index search (checked under SpecIndex).                *)
(***************************************************************************)
\* the entries of the index B-tree, those of the interior pages included
IndexEntries(f) ==
    UNION {{f.pages[p].cells[i].payload : i \in 1..Len(f.pages[p].cells)} :
              p \in {q \in 2..f.npages : f.pages[q].page_type \in {"LeafIndex", "InteriorIndex"}}}

\* the row-ids of the entries whose first column displays as q
MatchingRowIds(f, q) ==
    {NumberOf(e[Len(e)]) : e \in {d \in IndexEntries(f) : to_string(d[1]) = q}}

\* C2: search_index returns exactly the row-ids of the index entries whose
\* first indexed column, in display form, equals the query: none is missed by
\* the pruning of interior pages and none is added.
C2_SearchIndexExact ==
    (op = "search_index") =>
        /\ result.st = "ok"
        /\ {result.val[i] : i \in 1..Len(result.val)} = MatchingRowIds(file, args.query)
        /\ Len(result.val) = Cardinality(MatchingRowIds(file, args.query))

(***************************************************************************)
(* Claims about the program (checked under Spec).                          *)
(***************************************************************************)
\* the file without the index rows of its schema page
WithoutIndexes(f) ==
    LET not_index(cell) == cell.payload[1] # Text(S_index)
    IN  [f EXCEPT !.pages[1].cells = SelectSeq(@, not_index)]

\* some index of the file is on a list of columns that holds the column
IndexReferences(fx, column) ==
    \E k \in 1..Len(fx.columns) : fx.columns[k] = (IF column = S_a THEN 1 ELSE 2)

\* C1: a SELECT with WHERE c = 'v', some index referencing c (as first column
\* or not), prints by way of the index the same rows in the same order as
\* the same query by full table scan.
C1_IndexEqualsFullScan ==
    (op = "select" /\ args.where.some /\ IndexReferences(src, args.where.v.column))
        => LET Same(scan) == result.st = scan.st /\ stdout = scan.out
           IN  Same(main_sql(WithoutIndexes(file), args.command))

\* C10: a SELECT of COUNT(*) in any letter case prints one line, the number
\* of rows of the table (the sum of the cell counts of its leaf pages).
C10_CountPrintsRowCount ==
    (op = "count") =>
        /\ result.st = "ok"
        /\ stdout = <<Decimal(LeafCellCount(file))>>

\* C10, amended: it prints the number of rows of the table when the statement
\* has no WHERE clause or no index of the table references the WHERE column.
C10_CountWithoutIndex ==
    (op = "count" /\ (~args.where.some \/ ~IndexReferences(src, args.where.v.column)))
        => /\ result.st = "ok"
           /\ stdout = <<Decimal(LeafCellCount(file))>>

\* count(*) in lower case with a WHERE clause on a column that the index of
\* the table does not reference, on a table of several leaves
C10_Witness ==
    /\ op = "count"
    /\ args.select = <<S_count>>
    /\ args.where.some
    /\ src.columns # <<>>
    /\ ~IndexReferences(src, args.where.v.column)
    /\ file.pages[2].page_type = "InteriorTable"
    /\ stdout = <<Decimal(LeafCellCount(file))>>
    /\ LeafCellCount(file) > 2

\* the column list of CREATE TABLE t (a ..., b text)
TableColumns == <<S_a, S_b>>

\* the position (from 1) of the column in the CREATE TABLE column list
PositionOf(name) == CHOOSE k \in 1..Len(TableColumns) : TableColumns[k] = name

\* the SELECT statement of the command that ran
StatementOf(a) == [select |-> a.select, from |-> S_t, where_clause |-> a.where]

\* the rows that the traversal of the command returns
TraversalOf(f, a) == select_rows(f, DBFile_new(f).val, TableRoot(f), StatementOf(a))

\* the line of a row: its selected columns in select-list order, joined by '|'
LineOf(row, select) ==
    Join([k \in 1..Len(select) |-> to_string(row[PositionOf(select[k])])], <<124>>)

RECURSIVE LinesOf(_, _, _)
\* the lines of the rows that pass the WHERE filter, in the order of the rows
LinesOf(rows, select, where) ==
    IF rows = <<>> THEN <<>>
    ELSE (IF where.some => to_string(rows[1][PositionOf(where.v.column)]) = where.v.value
          THEN <<LineOf(rows[1], select)>> ELSE <<>>)
         \o LinesOf(Tail(rows), select, where)

C12_AbsentNameIsError ==
    (op = "select_absent") => (result.st = "err" /\ stdout = <<>>)

\* the display form of a column of a stored row of t: a row-id alias column
\* displays the row-id
ShownColumn(row, column) ==
    IF column = S_a /\ src.kind = "alias" THEN Decimal(row.row_id)
    ELSE to_string(row.payload[PositionOf(column)])

\* the number of rows of t whose WHERE column displays as the WHERE literal
MatchingRowCount ==
    Cardinality({k \in 1..Len(src.rows) :
                    ShownColumn(src.rows[k], args.where.v.column) = args.where.v.value})

\* C22: a SELECT of COUNT(*) with WHERE c = 'v' prints the number of rows of
\* t whose column c displays as v, and the run is the same on the database
\* without its index.
C22_CountWhereMatching ==
    (op = "count" /\ args.where.some) =>
        /\ result.st = "ok"
        /\ stdout = <<Decimal(MatchingRowCount)>>
        /\ LET SameCount(scan) == result.st = scan.st /\ stdout = scan.out
           IN  SameCount(main_sql(WithoutIndexes(file), args.command))

(***************************************************************************)
(* Claims about the schema catalog (checked under SpecSchema).             *)
(***************************************************************************)
\* the names of the rows of the schema page that are tables and whose name
\* does not begin with "sqlite_", in the order of the cells
UserTableNames(f) ==
    LET user_table(cell) ==
            /\ cell.payload[1] = Text(S_table)
            /\ ~(Len(cell.payload[2].s) >= 7 /\ SubSeq(cell.payload[2].s, 1, 7) = SQLITE_TABLE_PREFIX)
        kept == SelectSeq(f.pages[1].cells, user_table)
    IN  [k \in 1..Len(kept) |-> kept[k].payload[2].s]

\* C13: the user-table listing (tables() and the .tables command) holds
\* exactly the schema entries of kind table whose name does not begin with
\* "sqlite_", in the order of the cells of page 1; indexes, views, triggers
\* and tables such as sqlite_sequence never appear.
C13_UserTableListing ==
    /\ (op = ".tables") =>
          /\ result.st = "ok"
          /\ stdout = <<Join(UserTableNames(file), <<32>>)>>
    /\ (op = "table_objects") =>
          /\ result.st = "ok"
          /\ [k \in 1..Len(result.val) |-> result.val[k].name] = UserTableNames(file)

\* C14: a schema entry built from a five-column sqlite_schema row has no
\* root_page when the stored rootpage is NULL, and otherwise the stored
\* positive integer, in every integer width of the record format (1, 2, 3, 4,
\* 6 or 8 bytes, and the literal 1), so that a table whose root page number
\* exceeds 127 is resolvable.
C14_RootPageEveryWidth ==
    (op = "load_schemas" /\ \A k \in 1..Len(src) : src[k][4] # Zero)
        => /\ result.st = "ok"
           /\ Len(result.val) = Len(src)
           /\ \A k \in 1..Len(src) :
                 result.val[k].root_page =
                     (IF src[k][4] = Null THEN None ELSE Some(NumberOf(src[k][4])))

(***************************************************************************)
(* Claims about the parser (checked under SpecParse).                      *)
(***************************************************************************)
\* C15: parsing a CREATE TABLE statement (keywords in any letter case, blanks
\* and newlines between the tokens) yields the table name and the column
\* names in declaration order, each column giving its first identifier only;
\* a double-quoted column name may hold spaces and comes without its quotes.
C15_CreateTableColumns ==
    (op = "sql_statement") =>
        /\ result.st = "ok"
        /\ result.val.kind = "CreateTable"
        /\ result.val.name = args.name
        /\ result.val.columns = args.columns

(***************************************************************************)
(* Claims about the traversal of the index B-tree (checked under           *)
(* SpecIndex).                                                             *)
(***************************************************************************)
\* C16: the row-id vector search_index returns, which select_rows hands to
\* select_with_index as it is, is in ascending order for every query, as
\* the partition_point split of select_with_index requires.
C16_RowIdsAscending ==
    (op = "search_index" /\ result.st = "ok") =>
        \A i \in 1..(Len(result.val) - 1) : result.val[i] <= result.val[i + 1]

(***************************************************************************)
(* Claims about the interior pages of the index B-tree (checked under      *)
(* SpecVisit).                                                             *)
(***************************************************************************)
\* the pages search_index has decoded: the root and the pages it loaded
PagesVisited == {args.root} \cup {result.loads[k] : k \in 1..Len(result.loads)}

InteriorVisited == {p \in PagesVisited : file.pages[p].page_type = "InteriorIndex"}

\* compare(first key column of cell i of page p as text, query)
CellCmp(p, i) == StrCmp(to_string(file.pages[p].cells[i].payload[1]), args.query)

\* no cell of page p before cell i compares greater than the query
CellReached(p, i) == \A j \in 1..(i - 1) : CellCmp(p, j) # 1

IsLoaded(ptr) == \E k \in 1..Len(result.loads) : result.loads[k] = ptr

LoadRank(ptr) == CHOOSE k \in 1..Len(result.loads) : result.loads[k] = ptr

ResultRowIds == {result.res.val[k] : k \in 1..Len(result.res.val)}

CellRowId(p, i) ==
    NumberOf(file.pages[p].cells[i].payload[Len(file.pages[p].cells[i].payload)])

\* C17: on every interior index page of a search that completes, the left
\* child of a cell is loaded exactly if the cell is reached and cmp >= 0, the
\* cell's own row-id is in the result exactly if the cell is reached and
\* cmp = 0, the right-most child is loaded exactly if the last cell is
\* reached with cmp <= 0, and the children are loaded in pointer order.
C17_InteriorIndexVisit ==
    (op = "search_index_visit" /\ result.res.st = "ok") =>
        \A p \in InteriorVisited :
            LET cells == file.pages[p].cells
                n == Len(file.pages[p].cells)
            IN  /\ \A i \in 1..n :
                    /\ IsLoaded(cells[i].left_child_page)
                          <=> (CellReached(p, i) /\ CellCmp(p, i) >= 0)
                    /\ (CellRowId(p, i) \in ResultRowIds)
                          <=> (CellReached(p, i) /\ CellCmp(p, i) = 0)
                    /\ \A j \in (i + 1)..n :
                          (IsLoaded(cells[i].left_child_page)
                              /\ IsLoaded(cells[j].left_child_page))
                          => LoadRank(cells[i].left_child_page)
                                < LoadRank(cells[j].left_child_page)
                    /\ (IsLoaded(cells[i].left_child_page)
                          /\ IsLoaded(file.pages[p].right_most_pointer.v))
                          => LoadRank(cells[i].left_child_page)
                                < LoadRank(file.pages[p].right_most_pointer.v)
                /\ IsLoaded(file.pages[p].right_most_pointer.v)
                      <=> (n >= 1 /\ CellReached(p, n) /\ CellCmp(p, n) <= 0)

\* a completed search on a root of two cells: the first matches the query
\* and the second is greater, so the right-most child is left alone
C17_Witness ==
    /\ op = "search_index_visit"
    /\ result.res.st = "ok"
    /\ file.pages[args.root].page_type = "InteriorIndex"
    /\ Len(file.pages[args.root].cells) = 2
    /\ CellCmp(args.root, 1) = 0
    /\ CellCmp(args.root, 2) = 1
    /\ IsLoaded(file.pages[args.root].cells[1].left_child_page)
    /\ IsLoaded(file.pages[args.root].cells[2].left_child_page)
    /\ ~IsLoaded(file.pages[args.root].right_most_pointer.v)

(***************************************************************************)
(* Claims about the interior pages of the table B-tree (checked under      *)
(* SpecRoute).                                                             *)
(***************************************************************************)
\* the pages the lookup has decoded, each with the row-ids looked up in it
LookupVisits ==
    {[page |-> args.root, ids |-> args.row_ids]}
        \cup {result.loads[k] : k \in 1..Len(result.loads)}

\* the pages a full scan of the same tree loads
ScanLoads ==
    LET scan == ScanVisit(file, TableRoot(file))
    IN  {scan.loads[k] : k \in 1..Len(scan.loads)}

\* the i-th child of interior page p, the last being the right-most child
ChildOf(p, i) ==
    IF i <= Len(file.pages[p].cells) THEN file.pages[p].cells[i].left_child_page
    ELSE file.pages[p].right_most_pointer.v

\* the ids of v that belong to the i-th child of page v.page: those above
\* the separator of cell i - 1 and not above the separator of cell i
SliceOf(v, i) ==
    LET cells == file.pages[v.page].cells
        Belongs(id) ==
            /\ (i > 1 => id > cells[i - 1].row_id)
            /\ (i <= Len(cells) => id <= cells[i].row_id)
    IN  SelectSeq(v.ids, Belongs)

LoadsOfPage(ptr) == {k \in 1..Len(result.loads) : result.loads[k].page = ptr}

\* C18: on every interior table page of a lookup, a child is loaded only
\* with the row-ids between its separators, never with an empty slice and
\* never twice; when the lookup completes every child with a non-empty slice
\* is loaded, so every row-id is routed to exactly one child; and the lookup
\* loads only pages a full scan of the tree loads.
C18_LookupRouting ==
    (op = "select_with_index_visit") =>
        /\ \A v \in LookupVisits :
              (file.pages[v.page].page_type = "InteriorTable") =>
                  \A i \in 1..(Len(file.pages[v.page].cells) + 1) :
                      /\ Cardinality(LoadsOfPage(ChildOf(v.page, i))) <= 1
                      /\ \A k \in LoadsOfPage(ChildOf(v.page, i)) :
                            /\ result.loads[k].ids = SliceOf(v, i)
                            /\ result.loads[k].ids # <<>>
                      /\ (result.res.st = "ok" /\ SliceOf(v, i) # <<>>)
                            => LoadsOfPage(ChildOf(v.page, i)) # {}
        /\ {result.loads[k].page : k \in 1..Len(result.loads)} \subseteq ScanLoads

\* a completed lookup of two row-ids that go to different children of a root
\* of two cells, whose third child is not loaded
C18_Witness ==
    /\ op = "select_with_index_visit"
    /\ result.res.st = "ok"
    /\ file.pages[args.root].page_type = "InteriorTable"
    /\ Len(file.pages[args.root].cells) = 2
    /\ Len(args.row_ids) = 2
    /\ Cardinality({k \in 1..Len(result.loads) :
                       \E i \in 1..3 : result.loads[k].page = ChildOf(args.root, i)}) = 2
    /\ \E i \in 1..3 : /\ SliceOf([page |-> args.root, ids |-> args.row_ids], i) = <<>>
                       /\ LoadsOfPage(ChildOf(args.root, i)) = {}
                       /\ ChildOf(args.root, i) \in ScanLoads

(***************************************************************************)
(* Claims about the cell decoder (checked under SpecCell).                 *)
(***************************************************************************)
\* C19: read_cell returns the record of the cell, of whatever number of
\* columns, with the first column replaced by the row-id as Int64 exactly
\* when it is NULL and the page is a table leaf; every other column, and the
\* whole record on an index leaf, is as stored.
C19_ReadCellSubstitution ==
    (op = "read_cell") =>
        /\ result.st = "ok"
        /\ Len(result.val) = Len(src.cell.payload)
        /\ \A j \in 1..Len(src.cell.payload) :
              result.val[j] =
                  IF j = 1 /\ src.cell.payload[1] = Null /\ src.page_type = "LeafTable"
                  THEN Int64(src.cell.row_id)
                  ELSE src.cell.payload[j]

(***************************************************************************)
(* Claims about the leaf pages of the index B-tree (checked under          *)
(* SpecLeaf).                                                              *)
(***************************************************************************)
\* the entries of the page whose first column displays as the query
LeafMatching ==
    LET Matches(entry) == to_string(entry[1]) = args.query
    IN  SelectSeq(src, Matches)

\* C20: on a leaf index page search_index returns, in cell order, the
\* row-id held by the last column of every entry whose first column equals
\* the query as text, whatever the number of indexed columns and the row-id.
C20_LeafIndexRowIds ==
    (op = "search_leaf") =>
        /\ result.st = "ok"
        /\ result.val = [k \in 1..Len(LeafMatching) |->
                            NumberOf(LeafMatching[k][Len(LeafMatching[k])])]

(***************************************************************************)
(* Claims about page 1 (checked under SpecFirst).                          *)
(***************************************************************************)
\* the page view the bootstrap of DBFile::new builds from the same bytes
Bootstrapped == DBFile_new_first_page(src)

\* C21: load_page_at(1) yields a page view, and it has the kind, the cell
\* count and the cell pointer array of the view that the bootstrap of open()
\* builds of page 1.
C21_FirstPageBothPaths ==
    (op = "load_first_page") =>
        /\ result.st = "ok"
        /\ Bootstrapped.st = "ok"
        /\ result.val.page_type = Bootstrapped.val.page_type
        /\ result.val.num_cells = Bootstrapped.val.num_cells
        /\ result.val.cell_pointers = Bootstrapped.val.cell_pointers

(***************************************************************************)
(* Claims about the output of a failing SELECT (checked under SpecShort).  *)
(***************************************************************************)
\* C23: a SELECT that does not end well has printed no row, also when a
\* stored record is shorter than the column list of the table: what it
\* prints is all of its result rows or nothing.
C23_AllRowsOrNone ==
    (op = "select_short") => (result.st = "ok" \/ stdout = <<>>)
====
